---- MODULE Spec2Model ----
(***************************************************************************)
(* Backtest simulation engine of btreloaded: signal composition, position  *)
(* sizing, trade generation, equity simulation.                            *)
(*                                                                         *)
(* Numbers are pandas/numpy floats.  They are modelled as exact rationals  *)
(* n/d (normalised, d > 0) extended with NaN and +/-inf, with the IEEE     *)
(* rules the code relies on: NaN propagates through arithmetic, every      *)
(* ordered comparison with NaN is false, NaN != x is true, x/0 is +/-inf,  *)
(* 0/0 and 0*inf are NaN.  Rounding error is not modelled.                 *)
(***************************************************************************)
EXTENDS Integers, Sequences, FiniteSets, TLC

VARIABLES
    pc,                \* position of the running call
    data,              \* price table: [dates, Close, High, Low], and the
                       \* level of its rolling volatility where that is > 0
    signals,           \* composite signal series handed to the sizer
    sizing,            \* strategy_spec['position_sizing']: method and params
    positions,         \* position series
    i,                 \* index of the bar a loop is at (1-based)
    trades,            \* list `trades` of _generate_trades
    current_position,
    entry_price,
    entry_date,
    equity,            \* Series `equity` of _calculate_equity_curve
    categories,        \* strategy_spec['categories'], in dict order
    final_signal,      \* locals of the generated calculate_signals
    total_weight,
    category_signal,
    ci,                \* index of the category the generated code is at
    ri,                \* index of the rule the generated code is at
    rule_signals,      \* what RULE_IMPLEMENTATIONS returned, per category and rule
    strategy_type,     \* strategy_spec['type']
    tables,            \* the dict `data` given to run_backtest: its price tables
    result,            \* what run_backtest returned
    metrics,           \* what calculate_metrics returned
    trade_stats,       \* what analyze_trades returned
    first_run,         \* what the driver keeps of an earlier run
    other_call,        \* locals of a second call of the stages, while it waits
    driver,            \* the script that calls the agents, if one does
    manager            \* StrategyRuleManager: active_rules and category_weights

\* state of the sizing, trade and equity stages
btVars == <<data, signals, sizing, positions, i, trades, current_position,
            entry_price, entry_date, equity>>

\* state of the generated calculate_signals
sigVars == <<categories, final_signal, total_weight, category_signal, ci, ri,
             rule_signals>>

\* state of the drivers' calls around the stages
pipeVars == <<strategy_type, tables, result, metrics, trade_stats, first_run,
              other_call, driver, manager>>

vars == <<pc, btVars, sigVars, pipeVars>>

(***************************************************************************)
(* Bounds of the model.                                                    *)
(***************************************************************************)
NBars == 3            \* longest price table of the trade/equity specification

NSizingBars == 4      \* longest price table of the sizing specification

Lookback == 2         \* params['lookback'] of the volatility windows

AtrPeriods == 2       \* params['atr_periods']

(***************************************************************************)
(* Float arithmetic.                                                       *)
(***************************************************************************)
Abs(x) == IF x < 0 THEN -x ELSE x

RECURSIVE GCD(_, _)
GCD(a, b) == IF b = 0 THEN a ELSE GCD(b, a % b)

NaN == [k |-> "nan", n |-> 0, d |-> 1]

Inf(s) == [k |-> "inf", n |-> s, d |-> 1]

Rat(n, d) ==
    LET g == GCD(Abs(n), Abs(d))
        s == IF d < 0 THEN -1 ELSE 1
    IN  [k |-> "num", n |-> (s * n) \div g, d |-> (s * d) \div g]

Num(x) == [k |-> "num", n |-> x, d |-> 1]

IsNaN(x) == x.k = "nan"

IsNum(x) == x.k = "num"

\* sign of a value that is not NaN
Sgn(x) == IF x.n < 0 THEN -1 ELSE IF x.n > 0 THEN 1 ELSE 0

FNeg(a) == [a EXCEPT !.n = -a.n]

FAdd(a, b) ==
    IF IsNaN(a) \/ IsNaN(b) THEN NaN
    ELSE IF IsNum(a) /\ IsNum(b) THEN Rat(a.n * b.d + b.n * a.d, a.d * b.d)
    ELSE IF IsNum(a) THEN b
    ELSE IF IsNum(b) THEN a
    ELSE IF a.n = b.n THEN a ELSE NaN

FSub(a, b) == FAdd(a, FNeg(b))

FMul(a, b) ==
    IF IsNaN(a) \/ IsNaN(b) THEN NaN
    ELSE IF IsNum(a) /\ IsNum(b) THEN Rat(a.n * b.n, a.d * b.d)
    ELSE IF Sgn(a) * Sgn(b) = 0 THEN NaN
    ELSE Inf(Sgn(a) * Sgn(b))

FDiv(a, b) ==
    IF IsNaN(a) \/ IsNaN(b) THEN NaN
    ELSE IF IsNum(a) /\ IsNum(b)
         THEN IF b.n # 0 THEN Rat(a.n * b.d, a.d * b.n)
              ELSE IF a.n = 0 THEN NaN ELSE Inf(Sgn(a))
    ELSE IF IsNum(a) THEN Num(0)
    ELSE IF IsNum(b) THEN Inf(IF b.n < 0 THEN -Sgn(a) ELSE Sgn(a))
    ELSE NaN

FLt(a, b) ==
    IF IsNaN(a) \/ IsNaN(b) THEN FALSE
    ELSE IF IsNum(a) /\ IsNum(b) THEN a.n * b.d < b.n * a.d
    ELSE IF IsNum(a) THEN b.n > 0
    ELSE IF IsNum(b) THEN a.n < 0
    ELSE a.n < b.n

FGt(a, b) == FLt(b, a)

FEq(a, b) == ~IsNaN(a) /\ ~IsNaN(b) /\ a = b

FNe(a, b) == ~FEq(a, b)

(***************************************************************************)
(* The price table.                                                        *)
(***************************************************************************)
NBarsOf(d) == Len(d.Close)

\* data.loc[date, 'Close'] at the bar of index t
CloseAt(t) == Num(data.Close[t])

(***************************************************************************)
(* The generated calculate_signals (_generate_signal_code, run by          *)
(* _execute_strategy).  Series are over the bars of the price table.       *)
(***************************************************************************)
MaxRules == 3         \* most rules in one strategy of the composer specification

\* keys of RULE_IMPLEMENTATIONS
RuleTypes == {"zscore", "roc", "channel", "support_resistance", "sma_crossover",
              "ema_crossover", "atr_breakout", "volatility_regime"}

Bars == 1..NBarsOf(data)

\* pd.Series(0, index=data.index)
ZeroSeries == [t \in Bars |-> Num(0)]

FSign(x) == IF IsNaN(x) THEN NaN ELSE Num(Sgn(x))

\* `category_signal += rule_signal * rule_weight`
AddRuleSignal(cat, raw, weight) ==
    [t \in Bars |-> FAdd(cat[t], FMul(Num(raw[t]), weight))]

\* the category step without np.sign
CategoryNormalizeRaw(cat) == cat

\* `category_signal = np.sign(category_signal)`
CategoryNormalize(cat) == [t \in Bars |-> FSign(cat[t])]

\* `final_signal += category_signal * category_weight`
AddCategorySignal(final, cat, weight) ==
    [t \in Bars |-> FAdd(final[t], FMul(cat[t], weight))]

\* the final step without its `total_weight > 0` test
FinalNormalizeAlways(final, total) == [t \in Bars |-> FDiv(final[t], total)]

\* `if total_weight > 0: final_signal = final_signal / total_weight`
FinalNormalize(final, total) ==
    IF FGt(total, Num(0)) THEN [t \in Bars |-> FDiv(final[t], total)] ELSE final

SignalsNotRun ==
    /\ categories = <<>>
    /\ final_signal = <<>>
    /\ total_weight = Num(0)
    /\ category_signal = <<>>
    /\ ci = 1
    /\ ri = 1
    /\ rule_signals = <<>>

CalculateSignalsBegin ==
    /\ pc = "calculate_signals"
    /\ final_signal' = ZeroSeries
    /\ total_weight' = Num(0)
    /\ ci' = 1
    /\ pc' = "category"
    /\ UNCHANGED <<categories, category_signal, ri, rule_signals>>
    /\ UNCHANGED btVars
    /\ UNCHANGED pipeVars

CategoryBegin ==
    /\ pc = "category"
    /\ ci <= Len(categories)
    /\ category_signal' = ZeroSeries
    /\ total_weight' = FAdd(total_weight, categories[ci].weight)
    /\ rule_signals' = Append(rule_signals, <<>>)
    /\ ri' = 1
    /\ pc' = "rule"
    /\ UNCHANGED <<categories, final_signal, ci>>
    /\ UNCHANGED btVars
    /\ UNCHANGED pipeVars

\* RULE_IMPLEMENTATIONS[rule_type] of an unknown rule_type, or the rule's
\* data['Close'] on a table without that column, raises KeyError
RuleRaises ==
    /\ pc = "rule"
    /\ ri <= Len(categories[ci].rules)
    /\ (categories[ci].rules[ri].type \notin RuleTypes \/ "Close" \notin data.columns)

RECURSIVE CloseSum(_, _)
\* the sum of data['Close'] over the bars lo..hi
CloseSum(lo, hi) ==
    IF lo > hi THEN 0 ELSE CloseSum(lo, hi - 1) + data.Close[hi]

\* data['Close'].rolling(period).mean() at bar t: NaN until the window is full
RollingMean(period, t) ==
    IF t < period THEN NaN ELSE Rat(CloseSum(t - period + 1, t), period)

\* the crossover signal without a neutral value: short unless fast is above
CalculateSmaCrossoverNoNeutral(fast_period, slow_period) ==
    [t \in Bars |->
        IF FGt(RollingMean(fast_period, t), RollingMean(slow_period, t))
        THEN 1 ELSE -1]

\* calculate_sma_crossover: 0, then 1 where fast_sma > slow_sma, then -1
\* where fast_sma < slow_sma
CalculateSmaCrossover(fast_period, slow_period) ==
    [t \in Bars |->
        LET fast_sma == RollingMean(fast_period, t)
            slow_sma == RollingMean(slow_period, t)
        IN  IF FLt(fast_sma, slow_sma) THEN -1
            ELSE IF FGt(fast_sma, slow_sma) THEN 1
            ELSE 0]

\* what RULE_IMPLEMENTATIONS[rule_type](data, params) can return for rule r
\* of category c: the series of calculate_sma_crossover for that rule type,
\* and for the other types a series over {-1, 0, 1}; every implementation
\* is a function of data and params alone, so a rule gives a later run on
\* the same table what it gave the earlier run
RuleOutputs(c, r) ==
    LET rule == categories[c].rules[r]
    IN  IF rule.type = "sma_crossover"
        THEN {CalculateSmaCrossover(rule.parameters.fast_period,
                                    rule.parameters.slow_period)}
        ELSE IF first_run.status = "none" THEN [Bars -> {-1, 0, 1}]
        ELSE {first_run.rule_signals[c][r]}

RuleStep ==
    /\ pc = "rule"
    /\ ri <= Len(categories[ci].rules)
    /\ ~RuleRaises
    /\ \E raw \in RuleOutputs(ci, ri) :
         /\ category_signal' =
               AddRuleSignal(category_signal, raw, categories[ci].rules[ri].weight)
         /\ rule_signals' = [rule_signals EXCEPT ![ci] = Append(@, raw)]
    /\ ri' = ri + 1
    /\ UNCHANGED <<pc, categories, final_signal, total_weight, ci>>
    /\ UNCHANGED btVars
    /\ UNCHANGED pipeVars

CategoryEnd ==
    /\ pc = "rule"
    /\ ri > Len(categories[ci].rules)
    /\ category_signal' = CategoryNormalize(category_signal)
    /\ final_signal' = AddCategorySignal(final_signal, category_signal',
                                         categories[ci].weight)
    /\ ci' = ci + 1
    /\ pc' = "category"
    /\ UNCHANGED <<categories, total_weight, ri, rule_signals>>
    /\ UNCHANGED btVars
    /\ UNCHANGED pipeVars

CalculateSignalsReturn ==
    /\ pc = "category"
    /\ ci > Len(categories)
    /\ final_signal' = FinalNormalize(final_signal, total_weight)
    /\ pc' = "signals_done"
    /\ UNCHANGED <<categories, total_weight, category_signal, ci, ri, rule_signals>>
    /\ UNCHANGED btVars
    /\ UNCHANGED pipeVars

(***************************************************************************)
(* The generated calculate_position_sizes (_generate_position_sizing_code, *)
(* run by _apply_position_sizing).                                         *)
(***************************************************************************)
SizingMethods == {"volatility_targeting", "fixed_percentage", "equal_risk",
                  "inverse_volatility", "kelly_criterion"}

SizingSpec(method, win_rate) ==
    [method         |-> method,
     target_vol     |-> Rat(1, 5),
     lookback       |-> Lookback,
     max_size       |-> Rat(3, 10),
     position_size  |-> Rat(1, 10),
     risk_per_trade |-> Rat(1, 100),
     atr_periods    |-> AtrPeriods,
     win_rate       |-> win_rate,
     profit_ratio   |-> Num(2)]

FClip(x, lo, hi) ==
    IF IsNaN(x) THEN x
    ELSE IF FLt(x, lo) THEN lo
    ELSE IF FGt(x, hi) THEN hi
    ELSE x

\* Python's min(a, b)
FMin(a, b) == IF FLt(b, a) THEN b ELSE a

FAbs(a) == [a EXCEPT !.n = Abs(a.n)]

\* max of the values that are not NaN (DataFrame.max(axis=1))
FMax3(a, b, c) ==
    LET m2(x, y) == IF IsNaN(x) THEN y ELSE IF IsNaN(y) THEN x
                    ELSE IF FLt(x, y) THEN y ELSE x
    IN  m2(m2(a, b), c)

\* data['Close'].pct_change(): NaN at the first bar
PctReturns(t) ==
    IF t = 1 THEN NaN ELSE FSub(FDiv(CloseAt(t), CloseAt(t - 1)), Num(1))

\* returns.rolling(lookback).std() * np.sqrt(252): NaN until the window
\* holds `lookback` returns (and always for a window of one return), 0 when
\* the returns of the window are all equal, and otherwise a positive number,
\* of which the model keeps the level data.vol_level
Vol(t, lookback) ==
    IF t < lookback + 1 \/ lookback < 2 THEN NaN
    ELSE IF \A u \in (t - lookback + 1)..t : PctReturns(u) = PctReturns(t)
         THEN Num(0)
    ELSE data.vol_level

RECURSIVE FSum(_, _, _)
\* sum of f[lo..hi], skipping NaN
FSum(f, lo, hi) ==
    IF lo > hi THEN Num(0)
    ELSE IF IsNaN(f[hi]) THEN FSum(f, lo, hi - 1)
    ELSE FAdd(FSum(f, lo, hi - 1), f[hi])

\* Series.mean(): the mean of the values that are not NaN
FMean(f, n) ==
    LET cnt == Cardinality({t \in 1..n : ~IsNaN(f[t])})
    IN  IF cnt = 0 THEN NaN ELSE FDiv(FSum(f, 1, n), Num(cnt))

\* tr.max(axis=1) of h-l, |h-pc|, |l-pc|
TrueRange(t) ==
    LET h == Num(data.High[t])
        l == Num(data.Low[t])
        prevc == IF t = 1 THEN NaN ELSE CloseAt(t - 1)
    IN  FMax3(FSub(h, l), FAbs(FSub(h, prevc)), FAbs(FSub(l, prevc)))

\* tr.max(axis=1).rolling(atr_periods).mean()
Atr(t, periods) ==
    IF t < periods THEN NaN
    ELSE FDiv(FSum([u \in 1..t |-> TrueRange(u)], t - periods + 1, t),
              Num(periods))

\* a Kelly fraction that is never negative
KellyFractionFloored(p) ==
    LET kelly == FDiv(FSub(FMul(p.profit_ratio, p.win_rate),
                           FSub(Num(1), p.win_rate)),
                      p.profit_ratio)
    IN  IF FLt(kelly, Num(0)) THEN Num(0) ELSE kelly

KellyFraction(p) ==
    FDiv(FSub(FMul(p.profit_ratio, p.win_rate), FSub(Num(1), p.win_rate)),
         p.profit_ratio)

\* PositionSizer.volatility_targeting_sizing: target_vol / vol, clipped from
\* above only
VolatilityTargetingSizing(p, t) ==
    LET x == FDiv(p.target_vol, Vol(t, p.lookback))
    IN  IF IsNaN(x) THEN x ELSE IF FGt(x, p.max_size) THEN p.max_size ELSE x

\* volatility targeting without the size limit
VolatilityTargetingUnclipped(p, t) ==
    FMul(signals[t], FDiv(p.target_vol, Vol(t, p.lookback)))

VolatilityTargeting(p, t) ==
    FClip(FMul(signals[t], FDiv(p.target_vol, Vol(t, p.lookback))),
          FNeg(p.max_size), p.max_size)

FixedPercentage(p, t) == FMul(signals[t], p.position_size)

EqualRisk(p, t) ==
    FMul(signals[t],
         FDiv(p.risk_per_trade, FDiv(Atr(t, p.atr_periods), CloseAt(t))))

InverseVolatility(p, t) ==
    LET n == NBarsOf(data)
        vol == [u \in 1..n |-> Vol(u, p.lookback)]
    IN  FClip(FDiv(FMul(signals[t], FDiv(Num(1), vol[t])), FMean(vol, n)),
              FNeg(p.max_size), p.max_size)

\* PositionSizer.kelly_sizing: the half-Kelly fraction, at every bar
KellySizing(p) == FMul(KellyFraction(p), Rat(1, 2))

\* half-Kelly without the size limit
KellyCriterionUncapped(p, t) ==
    FMul(signals[t], FMul(KellyFraction(p), Rat(1, 2)))

KellyCriterion(p, t) ==
    FMul(signals[t], FMin(FMul(KellyFraction(p), Rat(1, 2)), p.max_size))

CalculatePositionSizes(p, t) ==
    CASE p.method = "volatility_targeting" -> VolatilityTargeting(p, t)
      [] p.method = "fixed_percentage"     -> FixedPercentage(p, t)
      [] p.method = "equal_risk"           -> EqualRisk(p, t)
      [] p.method = "inverse_volatility"   -> InverseVolatility(p, t)
      [] p.method = "kelly_criterion"      -> KellyCriterion(p, t)

\* columns of the price table the generated code of a method reads
ColumnsRead(method) ==
    CASE method \in {"volatility_targeting", "inverse_volatility"} -> {"Close"}
      [] method = "equal_risk" -> {"High", "Low", "Close"}
      [] OTHER -> {}

\* data[<column>] of a missing column raises KeyError
SizingRaises ==
    /\ pc = "apply_position_sizing"
    /\ ~(ColumnsRead(sizing.method) \subseteq data.columns)

ApplyPositionSizing ==
    /\ pc = "apply_position_sizing"
    /\ ~SizingRaises
    /\ positions' = [t \in 1..Len(signals) |-> CalculatePositionSizes(sizing, t)]
    /\ pc' = "generate_trades"
    /\ UNCHANGED <<data, signals, sizing, i, trades, current_position,
                   entry_price, entry_date, equity>>
    /\ UNCHANGED sigVars
    /\ UNCHANGED pipeVars

(***************************************************************************)
(* _generate_trades                                                        *)
(***************************************************************************)
NoDate == 0

NoPrice == [k |-> "none", n |-> 0, d |-> 1]

\* `if position != current_position`
PositionChangedVsFlat(position, current) == FNe(position, Num(0))

PositionChanged(position, current) == FNe(position, current)

\* pnl of the leg that is closed or modified, without its size
TradePnlPerUnit(price, entry, current) ==
    IF FNe(current, Num(0)) THEN FSub(price, entry) ELSE Num(0)

TradePnl(price, entry, current) ==
    IF FNe(current, Num(0)) THEN FMul(FSub(price, entry), current) ELSE Num(0)

\* hold_time counted from the stored entry date also from a flat position
TradeHoldTimeUnguarded(date, entry, current) == date - entry

TradeHoldTime(date, entry, current) ==
    IF FNe(current, Num(0)) THEN date - entry ELSE 0

\* the trade record with the target position as its size
TradeSizeAsTarget(date, price, position, current, eprice, edate) ==
    [date      |-> date,
     price     |-> price,
     size      |-> position,
     direction |-> IF FGt(position, Num(0)) THEN "BUY" ELSE "SELL",
     position  |-> position,
     pnl       |-> TradePnl(price, eprice, current),
     hold_time |-> TradeHoldTime(date, edate, current)]

Trade(date, price, position, current, eprice, edate) ==
    [date      |-> date,
     price     |-> price,
     size      |-> FSub(position, current),
     direction |-> IF FGt(position, current) THEN "BUY" ELSE "SELL",
     position  |-> position,
     pnl       |-> TradePnl(price, eprice, current),
     hold_time |-> TradeHoldTime(date, edate, current)]

\* data.loc[date, 'Close'] on a table without that column raises KeyError
TradeStepRaises ==
    /\ pc = "generate_trades"
    /\ i <= Len(positions)
    /\ PositionChanged(positions[i], current_position)
    /\ "Close" \notin data.columns

\* the loop body keeping the entry of a position through its adjustments
GenerateTradesStepKeepEntry ==
    /\ pc = "generate_trades"
    /\ i <= Len(positions)
    /\ ~TradeStepRaises
    /\ LET date == data.dates[i]
           position == positions[i]
       IN IF PositionChanged(position, current_position)
          THEN /\ trades' = Append(trades,
                       Trade(date, CloseAt(i), position, current_position,
                             entry_price, entry_date))
               /\ IF FNe(position, Num(0)) /\ FEq(current_position, Num(0))
                  THEN entry_price' = CloseAt(i) /\ entry_date' = date
                  ELSE UNCHANGED <<entry_price, entry_date>>
               /\ current_position' = position
          ELSE UNCHANGED <<trades, current_position, entry_price, entry_date>>
    /\ i' = i + 1
    /\ UNCHANGED <<pc, data, signals, sizing, positions, equity>>
    /\ UNCHANGED sigVars
    /\ UNCHANGED pipeVars

GenerateTradesStep ==
    /\ pc = "generate_trades"
    /\ i <= Len(positions)
    /\ ~TradeStepRaises
    /\ LET date == data.dates[i]
           position == positions[i]
       IN IF PositionChanged(position, current_position)
          THEN /\ trades' = Append(trades,
                       Trade(date, CloseAt(i), position, current_position,
                             entry_price, entry_date))
               /\ IF FNe(position, Num(0))
                  THEN entry_price' = CloseAt(i) /\ entry_date' = date
                  ELSE UNCHANGED <<entry_price, entry_date>>
               /\ current_position' = position
          ELSE UNCHANGED <<trades, current_position, entry_price, entry_date>>
    /\ i' = i + 1
    /\ UNCHANGED <<pc, data, signals, sizing, positions, equity>>
    /\ UNCHANGED sigVars
    /\ UNCHANGED pipeVars

GenerateTradesReturn ==
    /\ pc = "generate_trades"
    /\ i > Len(positions)
    /\ pc' = "calculate_equity_curve"
    /\ UNCHANGED <<data, signals, sizing, positions, i, trades,
                   current_position, entry_price, entry_date, equity>>
    /\ UNCHANGED sigVars
    /\ UNCHANGED pipeVars

(***************************************************************************)
(* _calculate_equity_curve                                                 *)
(***************************************************************************)
\* the price change as a fraction of the first close
ReturnsOnFirstClose(t) ==
    IF t = 1 THEN Num(0)
    ELSE FDiv(FSub(CloseAt(t), CloseAt(t - 1)), CloseAt(1))

\* data['Close'].pct_change(fill_method=None).fillna(0)
Returns(t) ==
    LET r == IF t = 1 THEN NaN
             ELSE FSub(FDiv(CloseAt(t), CloseAt(t - 1)), Num(1))
    IN  IF IsNaN(r) THEN Num(0) ELSE r

EquityNextLagged(prev, t) ==
    IF IsNaN(positions[t - 1]) \/ IsNaN(Returns(t)) THEN prev
    ELSE FMul(prev, FAdd(Num(1), FMul(positions[t - 1], Returns(t))))

EquityNext(prev, t) ==
    IF IsNaN(positions[t]) \/ IsNaN(Returns(t)) THEN prev
    ELSE FMul(prev, FAdd(Num(1), FMul(positions[t], Returns(t))))

\* data['Close'] on a table without that column raises KeyError, unless
\* `len(positions) == 0` has returned before
EquityRaises ==
    /\ pc = "calculate_equity_curve"
    /\ Len(positions) # 0
    /\ "Close" \notin data.columns

CalculateEquityInit ==
    /\ pc = "calculate_equity_curve"
    /\ ~EquityRaises
    /\ equity' = [t \in 1..NBarsOf(data) |-> Num(1)]
    /\ IF Len(positions) = 0
       THEN pc' = "done" /\ i' = i
       ELSE pc' = "equity_loop" /\ i' = 2
    /\ UNCHANGED <<data, signals, sizing, positions, trades,
                   current_position, entry_price, entry_date>>
    /\ UNCHANGED sigVars
    /\ UNCHANGED pipeVars

CalculateEquityStep ==
    /\ pc = "equity_loop"
    /\ i <= NBarsOf(data)
    /\ equity' = [equity EXCEPT ![i] = EquityNext(equity[i - 1], i)]
    /\ i' = i + 1
    /\ UNCHANGED <<pc, data, signals, sizing, positions, trades,
                   current_position, entry_price, entry_date>>
    /\ UNCHANGED sigVars
    /\ UNCHANGED pipeVars

CalculateEquityReturn ==
    /\ pc = "equity_loop"
    /\ i > NBarsOf(data)
    /\ pc' = "done"
    /\ UNCHANGED <<data, signals, sizing, positions, i, trades,
                   current_position, entry_price, entry_date, equity>>
    /\ UNCHANGED sigVars
    /\ UNCHANGED pipeVars

(***************************************************************************)
(* generate_complete_strategy and run_backtest.                            *)
(***************************************************************************)
MaxManagerRules == 2  \* most rules the rule manager holds at a time
NInterBars == 2       \* longest price table of the interleaving specification
NVolBars == 3         \* longest price table of the volatility sizing specification
NKellyBars == 2       \* longest price table of the Kelly specification
NSmaBars == 3         \* longest price table of the crossover specification
MaxSmaPeriod == 2     \* longest averaging window of the crossover specification
NPipeBars == 2        \* longest price table of the pipeline specification

NPipeRules == 1       \* most rules in one strategy of the pipeline specification

\* generate_complete_strategy raises ValueError for a strategy type other
\* than 'combined' and, from _generate_position_sizing_code, for an unknown
\* sizing method; _generate_signal_code checks nothing
GenerateRaises ==
    strategy_type # "combined" \/ sizing.method \notin SizingMethods

GenerateCompleteStrategy ==
    /\ pc = "generate_complete_strategy"
    /\ pc' = IF GenerateRaises THEN "raised" ELSE "run_backtest"
    /\ UNCHANGED <<btVars, sigVars, pipeVars>>

\* `list(data.keys())[0]` of an empty dict raises IndexError
RunBacktestBeginRaises ==
    /\ pc = "run_backtest"
    /\ tables = <<>>

\* run_backtest up to the call of calculate_signals in _execute_strategy
RunBacktestBegin ==
    /\ pc = "run_backtest"
    /\ ~RunBacktestBeginRaises
    /\ data' = tables[1]
    /\ pc' = "calculate_signals"
    /\ UNCHANGED <<signals, sizing, positions, i, trades, current_position,
                   entry_price, entry_date, equity>>
    /\ UNCHANGED <<sigVars, pipeVars>>

\* `signals = self._execute_strategy(...)`
ExecuteStrategyReturn ==
    /\ pc = "signals_done"
    /\ signals' = final_signal
    /\ pc' = "apply_position_sizing"
    /\ UNCHANGED <<data, sizing, positions, i, trades, current_position,
                   entry_price, entry_date, equity>>
    /\ UNCHANGED <<sigVars, pipeVars>>

\* `return {'status': 'success', ...}`
RunBacktestReturn ==
    /\ pc = "done"
    /\ result' = [status |-> "success"]
    /\ pc' = "returned"
    /\ UNCHANGED <<btVars, sigVars, strategy_type, tables, metrics, trade_stats,
                   first_run, other_call, driver, manager>>

StageRaises ==
    \/ RunBacktestBeginRaises
    \/ RuleRaises
    \/ SizingRaises
    \/ TradeStepRaises
    \/ EquityRaises

\* `except Exception as e: return {'status': 'error', 'message': str(e)}`
RunBacktestExcept ==
    /\ StageRaises
    /\ result' = [status |-> "error"]
    /\ pc' = "returned"
    /\ UNCHANGED <<btVars, sigVars, strategy_type, tables, metrics, trade_stats,
                   first_run, other_call, driver, manager>>

(***************************************************************************)
(* PerformanceAgent: calculate_metrics and analyze_trades, as              *)
(* analyze_performance calls them on the equity curve and the trades of a  *)
(* run.  A standard deviation is the root of a rational variance; where it *)
(* is positive the model keeps the value a * sqrt(q) as the pair (a, q).   *)
(***************************************************************************)
\* the value a * sqrt(q) for a rational q > 0
Surd(a, q) == IF a = Num(0) THEN Num(0) ELSE [k |-> "surd", n |-> a, d |-> q]

\* a / (b * sqrt(q)) = (a / (b * q)) * sqrt(q)
FDivSurd(a, b, q) == Surd(FDiv(a, FMul(b, q)), q)

\* round(x, 2): to the nearest hundredth, halves to the even one; the
\* rounding of an irrational value is kept symbolic
Round2(x) ==
    IF x.k = "surd" THEN [k |-> "round2", n |-> x.n, d |-> x.d]
    ELSE IF ~IsNum(x) THEN x
    ELSE LET y == FMul(x, Num(100))
             f == y.n \div y.d
             twice == 2 * (y.n - f * y.d)
             m == IF twice > y.d THEN f + 1
                  ELSE IF twice < y.d THEN f
                  ELSE IF f % 2 = 0 THEN f ELSE f + 1
         IN  Rat(m, 100)

\* Series.dropna()
DropNa(f) == SelectSeq(f, LAMBDA x : ~IsNaN(x))

\* equity_curve.pct_change(fill_method=None).dropna()
CurveReturns(eq) ==
    DropNa([t \in 1..(Len(eq) - 1) |-> FSub(FDiv(eq[t + 1], eq[t]), Num(1))])

\* Series.var() with ddof = 1: NaN for fewer than two values
Variance(f) ==
    LET n == Len(f)
        mean == FMean(f, n)
        sq == [t \in 1..n |-> FMul(FSub(f[t], mean), FSub(f[t], mean))]
    IN  IF n < 2 THEN NaN ELSE FDiv(FSum(sq, 1, n), Num(n - 1))

\* returns.std() * np.sqrt(252) * 100
Volatility(returns) ==
    LET var == Variance(returns)
    IN  IF IsNaN(var) THEN NaN
        ELSE IF var = Num(0) THEN Num(0)
        ELSE Surd(Num(100), FMul(Num(252), var))

\* annual_return / volatility if volatility != 0 else 0
SharpeRatio(annual_return, volatility) ==
    IF volatility = Num(0) THEN Num(0)
    ELSE IF IsNaN(volatility) THEN NaN
    ELSE FDivSurd(annual_return, volatility.n, volatility.d)

RECURSIVE RunningMax(_, _)
\* equity_curve.expanding().max() at bar t
RunningMax(eq, t) ==
    IF t = 1 THEN eq[1]
    ELSE LET m == RunningMax(eq, t - 1)
         IN  IF FGt(eq[t], m) THEN eq[t] ELSE m

RECURSIVE FMinUpTo(_, _)
\* Series.min() of f[1..t]
FMinUpTo(f, t) ==
    IF t = 1 THEN f[1]
    ELSE LET m == FMinUpTo(f, t - 1)
         IN  IF FLt(f[t], m) THEN f[t] ELSE m

\* ((equity_curve / equity_curve.expanding().max() - 1).min()) * 100
MaxDrawdown(eq) ==
    LET dd == [t \in 1..Len(eq) |-> FSub(FDiv(eq[t], RunningMax(eq, t)), Num(1))]
    IN  FMul(FMinUpTo(dd, Len(eq)), Num(100))

\* abs(annual_return / max_drawdown) if max_drawdown != 0 else 0
CalmarRatio(annual_return, max_drawdown) ==
    IF max_drawdown = Num(0) THEN Num(0)
    ELSE LET q == FDiv(annual_return, max_drawdown)
         IN  IF IsNaN(q) THEN NaN ELSE FAbs(q)

\* calculate_sortino
CalculateSortino(returns) ==
    LET downside == SelectSeq(returns, LAMBDA x : FLt(x, Num(0)))
        sq == [t \in 1..Len(downside) |-> FMul(downside[t], downside[t])]
        annualized == FMul(FMean(returns, Len(returns)), Num(252))
    IN  IF Len(returns) = 0 THEN Num(0)
        ELSE IF Len(downside) = 0 THEN Inf(1)
        ELSE FDivSurd(annualized, Num(1),
                      FMul(Num(252), FMean(sq, Len(downside))))

\* the metrics of the `except` branch
ZeroMetrics ==
    [total_return |-> Num(0), annual_return |-> Num(0), volatility |-> Num(0),
     sharpe_ratio |-> Num(0), max_drawdown |-> Num(0), calmar_ratio |-> Num(0),
     sortino_ratio |-> Num(0)]

\* `equity_curve.iloc[-1]` of an empty curve raises IndexError
MetricsRaises(eq) == Len(eq) = 0

CalculateMetricsOf(eq) ==
    IF MetricsRaises(eq) THEN ZeroMetrics
    ELSE LET returns == CurveReturns(eq)
             total_return ==
                 FMul(FSub(FDiv(eq[Len(eq)], eq[1]), Num(1)), Num(100))
             annual_return ==
                 FMul(FMul(FMean(returns, Len(returns)), Num(252)), Num(100))
             volatility == Volatility(returns)
             max_drawdown == MaxDrawdown(eq)
         IN  [total_return  |-> Round2(total_return),
              annual_return |-> Round2(annual_return),
              volatility    |-> Round2(volatility),
              sharpe_ratio  |-> Round2(SharpeRatio(annual_return, volatility)),
              max_drawdown  |-> Round2(max_drawdown),
              calmar_ratio  |-> Round2(CalmarRatio(annual_return, max_drawdown)),
              sortino_ratio |-> Round2(CalculateSortino(returns))]

\* the trades that did not lose
WinningTradesNonNegative(tr) == SelectSeq(tr, LAMBDA x : ~FLt(x.pnl, Num(0)))

\* trades[trades['pnl'] > 0]
WinningTrades(tr) == SelectSeq(tr, LAMBDA x : FGt(x.pnl, Num(0)))

\* trades[trades['pnl'] < 0]
LosingTrades(tr) == SelectSeq(tr, LAMBDA x : FLt(x.pnl, Num(0)))

PnlOf(tr) == [k \in 1..Len(tr) |-> tr[k].pnl]

\* Series.sum(): NaN is skipped
PnlSum(tr) == FSum(PnlOf(tr), 1, Len(tr))

\* profit factor 0 when there is nothing to divide by
ProfitFactorZeroWhenNoLoss(winning, losing) ==
    IF Len(losing) > 0 /\ FNe(PnlSum(losing), Num(0))
    THEN LET q == FDiv(PnlSum(winning), PnlSum(losing))
         IN  IF IsNaN(q) THEN NaN ELSE FAbs(q)
    ELSE Num(0)

ProfitFactor(winning, losing) ==
    IF Len(losing) > 0 /\ FNe(PnlSum(losing), Num(0))
    THEN LET q == FDiv(PnlSum(winning), PnlSum(losing))
         IN  IF IsNaN(q) THEN NaN ELSE FAbs(q)
    ELSE Inf(1)

\* the statistics of an empty trade list
ZeroStats ==
    [total_trades |-> 0, win_rate |-> Num(0), avg_win |-> Num(0),
     avg_loss |-> Num(0), profit_factor |-> Num(0), avg_hold_time |-> Num(0)]

AnalyzeTradesOf(tr) ==
    IF Len(tr) = 0 THEN ZeroStats
    ELSE LET winning == WinningTrades(tr)
             losing == LosingTrades(tr)
         IN  [total_trades |-> Len(tr),
              win_rate |-> FMul(Rat(Len(winning), Len(tr)), Num(100)),
              avg_win |-> IF Len(winning) > 0
                          THEN FMean(PnlOf(winning), Len(winning)) ELSE Num(0),
              avg_loss |-> IF Len(losing) > 0
                           THEN FMean(PnlOf(losing), Len(losing)) ELSE Num(0),
              profit_factor |-> ProfitFactor(winning, losing),
              avg_hold_time |->
                  FMean([k \in 1..Len(tr) |-> Num(tr[k].hold_time)], Len(tr))]

NoMetrics == [status |-> "none"]

NoStats == [status |-> "none"]

NoRun == [status |-> "none"]

NoCall == [status |-> "none"]

\* the agents are called directly
NoDriver == "none"

\* the categories of the rule catalog
ManagerCategories == {"entry", "exit"}

\* a category that set_category_weight was not called for
UnsetWeight == [k |-> "none", n |-> 0, d |-> 1]

\* StrategyRuleManager.__init__: two empty dicts; active_rules is kept in
\* insertion order
NewManager ==
    [active_rules |-> <<>>,
     category_weights |-> [c \in ManagerCategories |-> UnsetWeight]]

PerformanceNotRun ==
    /\ metrics = NoMetrics
    /\ trade_stats = NoStats
    /\ first_run = NoRun
    /\ other_call = NoCall
    /\ driver = NoDriver
    /\ manager = NewManager

\* `metrics = self.calculate_metrics(equity_curve)`
CalculateMetrics ==
    /\ pc = "calculate_metrics"
    /\ metrics' = CalculateMetricsOf(equity)
    /\ pc' = "analyze_trades"
    /\ UNCHANGED <<btVars, sigVars, strategy_type, tables, result, trade_stats,
                   first_run, other_call, driver, manager>>

\* `trade_stats = self.analyze_trades(trades)`
AnalyzeTrades ==
    /\ pc = "analyze_trades"
    /\ trade_stats' = AnalyzeTradesOf(trades)
    /\ pc' = "analyzed"
    /\ UNCHANGED <<btVars, sigVars, strategy_type, tables, result, metrics,
                   first_run, other_call, driver, manager>>

(***************************************************************************)
(* StrategyRuleManager (utils/strategy_rules.py) and the configuration it  *)
(* hands to the strategy generator.                                        *)
(***************************************************************************)
\* index of the category in active_rules, 0 when it is not a key
CategoryIndex(category) ==
    IF \E k \in 1..Len(manager.active_rules) :
          manager.active_rules[k].category = category
    THEN CHOOSE k \in 1..Len(manager.active_rules) :
            manager.active_rules[k].category = category
    ELSE 0

RulesInManager ==
    LET count[k \in 0..Len(manager.active_rules)] ==
            IF k = 0 THEN 0 ELSE count[k - 1] + Len(manager.active_rules[k].rules)
    IN  count[Len(manager.active_rules)]

\* the list without its element at the 0-based index: list.pop(index)
PopAt(list, index) ==
    [k \in 1..(Len(list) - 1) |-> IF k <= index THEN list[k] ELSE list[k + 1]]

AddRule(category, rule_type, parameters) ==
    /\ pc = "strategy_manager"
    /\ RulesInManager < MaxManagerRules
    /\ LET rule == [rule_type |-> rule_type, parameters |-> parameters]
           k == CategoryIndex(category)
       IN  manager' =
              [manager EXCEPT !.active_rules =
                  IF k = 0
                  THEN Append(@, [category |-> category, rules |-> <<rule>>])
                  ELSE [@ EXCEPT ![k].rules = Append(@, rule)]]
    /\ UNCHANGED <<pc, btVars, sigVars, strategy_type, tables, result, metrics,
                   trade_stats, first_run, other_call, driver>>

\* a removal that also forgets a category left without rules
RemovedAndEmptyCategory(category, index) ==
    LET k == CategoryIndex(category)
    IN  IF k # 0 /\ 0 <= index /\ index < Len(manager.active_rules[k].rules)
        THEN IF Len(manager.active_rules[k].rules) = 1
             THEN [manager EXCEPT !.active_rules = PopAt(@, k - 1)]
             ELSE [manager EXCEPT !.active_rules[k].rules = PopAt(@, index)]
        ELSE manager

\* the manager after remove_rule(category, index)
Removed(category, index) ==
    LET k == CategoryIndex(category)
    IN  IF k # 0 /\ 0 <= index /\ index < Len(manager.active_rules[k].rules)
        THEN [manager EXCEPT !.active_rules[k].rules = PopAt(@, index)]
        ELSE manager

RemoveRule(category, index) ==
    /\ pc = "strategy_manager"
    /\ manager' = Removed(category, index)
    /\ UNCHANGED <<pc, btVars, sigVars, strategy_type, tables, result, metrics,
                   trade_stats, first_run, other_call, driver>>

SetCategoryWeight(category, weight) ==
    /\ pc = "strategy_manager"
    /\ manager' = [manager EXCEPT !.category_weights[category] = weight]
    /\ UNCHANGED <<pc, btVars, sigVars, strategy_type, tables, result, metrics,
                   trade_stats, first_run, other_call, driver>>

\* get_rules_config, with each rule as _generate_signal_code reads it:
\* its type and rule_params.get('weight', 1.0)
RulesConfig ==
    [k \in 1..Len(manager.active_rules) |->
        LET entry == manager.active_rules[k]
        IN  [key |-> entry.category,
             weight |-> IF manager.category_weights[entry.category] = UnsetWeight
                        THEN Num(1)
                        ELSE manager.category_weights[entry.category],
             rules |-> [r \in 1..Len(entry.rules) |->
                          [type |-> entry.rules[r].rule_type,
                           weight |->
                              IF "weight" \in DOMAIN entry.rules[r].parameters
                              THEN entry.rules[r].parameters.weight
                              ELSE Num(1)]]]]

\* `strategy_config = st.session_state.strategy_manager.get_rules_config()`
\* and the run of the calculate_signals generated from it
GetRulesConfig ==
    /\ pc = "strategy_manager"
    /\ categories' = RulesConfig
    /\ pc' = "calculate_signals"
    /\ UNCHANGED btVars
    /\ UNCHANGED <<final_signal, total_weight, category_signal, ci, ri,
                   rule_signals>>
    /\ UNCHANGED pipeVars

(***************************************************************************)
(* Specification of the trade generator and the equity simulator: the two  *)
(* stages run on every price table and position series of up to NBars      *)
(* bars.                                                                   *)
(***************************************************************************)
\* trading calendars: consecutive days, with a two-day gap after bar w
Calendar(n, w) == [t \in 1..n |-> IF t > w THEN t + 2 ELSE t]

Columns == {"Open", "High", "Low", "Close", "Volume"}

PriceTable(n, w, c, spread, level) ==
    [dates |-> Calendar(n, w), Close |-> c,
     High |-> [t \in 1..n |-> c[t] + spread], Low |-> c,
     vol_level |-> level, columns |-> Columns]

NoResult == [status |-> "none"]

PipelineNotRun ==
    /\ strategy_type = "combined"
    /\ tables = <<>>
    /\ result = NoResult
    /\ PerformanceNotRun

InitBacktest(maxn, closes, posvals) ==
    /\ pc = "generate_trades"
    /\ \E n \in 0..maxn :
         /\ \E c \in [1..n -> closes], w \in {1, n} :
              data = PriceTable(n, w, c, 0, Num(1))
         /\ positions \in [1..n -> posvals]
    /\ signals = <<>>
    /\ sizing = SizingSpec("fixed_percentage", Rat(3, 5))
    /\ i = 1
    /\ trades = <<>>
    /\ current_position = Num(0)
    /\ entry_price = NoPrice
    /\ entry_date = NoDate
    /\ equity = <<>>
    /\ SignalsNotRun
    /\ PipelineNotRun

Init == InitBacktest(NBars, {1, 2, 3}, {NaN, Num(-1), Num(0), Rat(1, 2), Num(1)})

Next ==
    \/ GenerateTradesStep
    \/ GenerateTradesReturn
    \/ CalculateEquityInit
    \/ CalculateEquityStep
    \/ CalculateEquityReturn

Spec == Init /\ [][Next]_vars

(***************************************************************************)
(* Specification of the trade generator and the equity simulator on the    *)
(* inputs of Spec and on two worked price tables, with every position      *)
(* series over {0, 1/2, 1} on each of their prefixes.                      *)
(***************************************************************************)
\* closes of a round trip with a loss of 2 per unit
TradeExampleCloses == <<100, 100, 105, 105, 103>>

\* closes growing by 1% per bar, in millionths
OnePercentCloses == <<100000000, 101000000, 102010000, 103030100, 104060401>>

InitExamples ==
    \/ Init
    \/ /\ pc = "generate_trades"
       /\ \E ex \in {TradeExampleCloses, OnePercentCloses} :
            \E n \in 0..Len(ex) :
               /\ \E w \in 1..n : data = PriceTable(n, w, SubSeq(ex, 1, n), 0, Num(1))
               /\ positions \in [1..n -> {Num(0), Rat(1, 2), Num(1)}]
       /\ signals = <<>>
       /\ sizing = SizingSpec("fixed_percentage", Rat(3, 5))
       /\ i = 1
       /\ trades = <<>>
       /\ current_position = Num(0)
       /\ entry_price = NoPrice
       /\ entry_date = NoDate
       /\ equity = <<>>
       /\ SignalsNotRun
       /\ PipelineNotRun

SpecExamples == InitExamples /\ [][Next]_vars

(***************************************************************************)
(* Specification of two calls of the trade generator and the equity        *)
(* simulator on the same agent, interleaved in every order: the running    *)
(* call can be put aside at any step for the other call, each call with    *)
(* its own price table and position series.                                *)
(***************************************************************************)
\* the locals of the running call of the stages
CallFrame ==
    [status |-> "waiting", pc |-> pc, data |-> data, positions |-> positions,
     i |-> i, trades |-> trades, current_position |-> current_position,
     entry_price |-> entry_price, entry_date |-> entry_date, equity |-> equity]

\* current_position of the call that resumes, were it a field of the agent
ResumedPositionOfAgent(frame) == current_position

\* `current_position` is a local of the call of _generate_trades
ResumedPosition(frame) == frame.current_position

\* the running call is put aside and the waiting call resumes
SwitchCall ==
    /\ other_call # NoCall
    /\ pc' = other_call.pc
    /\ data' = other_call.data
    /\ positions' = other_call.positions
    /\ i' = other_call.i
    /\ trades' = other_call.trades
    /\ current_position' = ResumedPosition(other_call)
    /\ entry_price' = other_call.entry_price
    /\ entry_date' = other_call.entry_date
    /\ equity' = other_call.equity
    /\ other_call' = CallFrame
    /\ UNCHANGED <<signals, sizing>>
    /\ UNCHANGED sigVars
    /\ UNCHANGED <<strategy_type, tables, result, metrics, trade_stats, first_run,
                   driver, manager>>

\* the call that waits first: a rising price table with a gap in its
\* calendar, not yet started
OtherCalls(maxn) ==
    UNION {{[status |-> "waiting", pc |-> "generate_trades",
             data |-> PriceTable(n, 1, [t \in 1..n |-> t], 0, Num(1)),
             positions |-> p, i |-> 1, trades |-> <<>>,
             current_position |-> Num(0), entry_price |-> NoPrice,
             entry_date |-> NoDate, equity |-> <<>>] :
               p \in [1..n -> {Num(-1), Rat(1, 2)}]} : n \in 0..maxn}

InitInterleaved ==
    /\ pc = "generate_trades"
    /\ \E n \in 0..NInterBars :
         /\ \E c \in [1..n -> {1, 2}] : data = PriceTable(n, n, c, 0, Num(1))
         /\ positions \in [1..n -> {Num(0), Num(1)}]
    /\ other_call \in OtherCalls(NInterBars)
    /\ signals = <<>>
    /\ sizing = SizingSpec("fixed_percentage", Rat(3, 5))
    /\ i = 1
    /\ trades = <<>>
    /\ current_position = Num(0)
    /\ entry_price = NoPrice
    /\ entry_date = NoDate
    /\ equity = <<>>
    /\ SignalsNotRun
    /\ strategy_type = "combined"
    /\ tables = <<>>
    /\ result = NoResult
    /\ metrics = NoMetrics
    /\ trade_stats = NoStats
    /\ first_run = NoRun
    /\ driver = NoDriver
    /\ manager = NewManager

NextInterleaved == Next \/ SwitchCall

SpecInterleaved == InitInterleaved /\ [][NextInterleaved]_vars

(***************************************************************************)
(* Specification of the sizing stage followed by the trade generator and   *)
(* the equity simulator, as run_backtest chains them: every signal series  *)
(* over {-1, 0, 1} on every price table of up to NSizingBars bars, under   *)
(* each sizing method.                                                     *)
(***************************************************************************)
SizingCloseVals == {1, 2}

WinRates == {Rat(3, 5), Rat(1, 5)}

InitSizing ==
    /\ pc = "apply_position_sizing"
    /\ \E n \in 0..NSizingBars, m \in SizingMethods :
         /\ \E c \in [1..n -> SizingCloseVals],
               spread \in (IF m = "equal_risk" THEN {0, 1} ELSE {0}),
               level \in (IF m \in {"volatility_targeting", "inverse_volatility"}
                          THEN {Rat(1, 10), Num(1)} ELSE {Num(1)}) :
              data = PriceTable(n, n, c, spread, level)
         /\ signals \in [1..n -> {Num(-1), Num(0), Num(1)}]
         /\ \E w \in (IF m = "kelly_criterion" THEN WinRates ELSE {Rat(3, 5)}) :
              sizing = SizingSpec(m, w)
    /\ positions = <<>>
    /\ i = 1
    /\ trades = <<>>
    /\ current_position = Num(0)
    /\ entry_price = NoPrice
    /\ entry_date = NoDate
    /\ equity = <<>>
    /\ SignalsNotRun
    /\ PipelineNotRun

NextSizing == ApplyPositionSizing \/ Next

SpecSizing == InitSizing /\ [][NextSizing]_vars

(***************************************************************************)
(* Specification of Kelly sizing followed by the trade generator and the   *)
(* equity simulator: every signal series over fractions of [-1, 1] on      *)
(* tables of up to NKellyBars bars, with size limits below, at and above   *)
(* the half-Kelly fraction.                                                *)
(***************************************************************************)
KellySignalVals == {Num(-1), Rat(-1, 3), Num(0), Rat(1, 2), Num(1)}

InitKelly ==
    /\ pc = "apply_position_sizing"
    /\ \E n \in 0..NKellyBars :
         /\ \E c \in [1..n -> SizingCloseVals] :
              data = PriceTable(n, n, c, 0, Num(1))
         /\ signals \in [1..n -> KellySignalVals]
    /\ \E w \in WinRates, m \in {Rat(1, 10), Rat(1, 5), Rat(3, 10)},
          b \in {Num(2), Rat(1, 2)} :
         sizing = [SizingSpec("kelly_criterion", w)
                      EXCEPT !.max_size = m, !.profit_ratio = b]
    /\ positions = <<>>
    /\ i = 1
    /\ trades = <<>>
    /\ current_position = Num(0)
    /\ entry_price = NoPrice
    /\ entry_date = NoDate
    /\ equity = <<>>
    /\ SignalsNotRun
    /\ PipelineNotRun

SpecKelly == InitKelly /\ [][NextSizing]_vars

(***************************************************************************)
(* Specification of the volatility-based sizing methods followed by the    *)
(* trade generator and the equity simulator: every signal series over      *)
(* fractions of [-1, 1] on tables of up to NVolBars bars whose volatility, *)
(* where it is positive, is small (1/100) or large (1).                    *)
(***************************************************************************)
InitVolSizing ==
    /\ pc = "apply_position_sizing"
    /\ \E n \in 0..NVolBars :
         /\ \E c \in [1..n -> SizingCloseVals], level \in {Rat(1, 100), Num(1)} :
              data = PriceTable(n, n, c, 0, level)
         /\ signals \in [1..n -> KellySignalVals]
    /\ \E m \in {"volatility_targeting", "inverse_volatility"} :
         sizing = SizingSpec(m, Rat(3, 5))
    /\ positions = <<>>
    /\ i = 1
    /\ trades = <<>>
    /\ current_position = Num(0)
    /\ entry_price = NoPrice
    /\ entry_date = NoDate
    /\ equity = <<>>
    /\ SignalsNotRun
    /\ PipelineNotRun

SpecVolSizing == InitVolSizing /\ [][NextSizing]_vars

(***************************************************************************)
(* Specification of the signal composer: the generated calculate_signals   *)
(* on every configuration of up to two categories (the catalog has two,    *)
(* "entry" and "exit") with up to MaxRules rules in all.  Every operation  *)
(* of calculate_signals is elementwise, so the price table has one bar,    *)
(* which stands for any bar.                                               *)
(***************************************************************************)
CategoryKeys == <<"entry", "exit">>

RuleListsOf(types, weights, maxlen) ==
    UNION {[1..n -> [type : types, weight : weights]] : n \in 0..maxlen}

RECURSIVE TotalRules(_, _)
TotalRules(cats, c) ==
    IF c = 0 THEN 0 ELSE TotalRules(cats, c - 1) + Len(cats[c].rules)

\* the configurations of up to maxcats categories and maxlen rules in all
\* that get_rules_config can return
CategoryConfigs(maxcats, catweights, types, weights, maxlen) ==
    {cats \in
        UNION {{[c \in 1..n |-> [key |-> CategoryKeys[c], weight |-> w[c],
                                 rules |-> r[c]]] :
                   w \in [1..n -> catweights],
                   r \in [1..n -> RuleListsOf(types, weights, maxlen)]} :
               n \in 0..maxcats} :
        TotalRules(cats, Len(cats)) <= maxlen}

InitSignal ==
    /\ pc = "calculate_signals"
    /\ data = PriceTable(1, 1, <<1>>, 0, Num(1))
    /\ categories \in CategoryConfigs(Len(CategoryKeys),
                                      {Num(0), Rat(1, 2), Num(1)}, {"roc"},
                                      {Num(1), Num(2)}, MaxRules)
    /\ signals = <<>>
    /\ sizing = SizingSpec("fixed_percentage", Rat(3, 5))
    /\ positions = <<>>
    /\ i = 1
    /\ trades = <<>>
    /\ current_position = Num(0)
    /\ entry_price = NoPrice
    /\ entry_date = NoDate
    /\ equity = <<>>
    /\ final_signal = <<>>
    /\ total_weight = Num(0)
    /\ category_signal = <<>>
    /\ ci = 1
    /\ ri = 1
    /\ rule_signals = <<>>
    /\ PipelineNotRun

NextSignal ==
    \/ CalculateSignalsBegin
    \/ CategoryBegin
    \/ RuleStep
    \/ CategoryEnd
    \/ CalculateSignalsReturn

SpecSignal == InitSignal /\ [][NextSignal]_vars

(***************************************************************************)
(* Specification of the performance analysis: analyze_performance on every *)
(* equity curve of up to NCurveBars bars that starts at 1.0 and every      *)
(* trade list of up to NTrades trades.                                     *)
(***************************************************************************)
NCurveBars == 3       \* longest equity curve of the performance specification

NTrades == 2          \* longest trade list of the performance specification

\* the equity curves _calculate_equity_curve returns: empty for an empty
\* table, and starting at 1.0 otherwise
EquityCurves(maxn, vals) ==
    {<<>>} \cup UNION {{<<Num(1)>> \o tail : tail \in [1..(n - 1) -> vals]} :
                       n \in 1..maxn}

\* the columns of the trades frame that analyze_trades reads
TradeLists(maxn, pnls, holds) ==
    UNION {[1..n -> [pnl : pnls, hold_time : holds]] : n \in 0..maxn}

InitPerformance ==
    /\ pc = "calculate_metrics"
    /\ equity \in EquityCurves(NCurveBars, {Num(0), Rat(1, 2), Num(1), Num(2)})
    /\ trades \in TradeLists(NTrades, {NaN, Num(-2), Num(0), Num(1), Num(3)}, {0, 4})
    /\ data = PriceTable(0, 0, <<>>, 0, Num(1))
    /\ signals = <<>>
    /\ sizing = SizingSpec("fixed_percentage", Rat(3, 5))
    /\ positions = <<>>
    /\ i = 1
    /\ current_position = Num(0)
    /\ entry_price = NoPrice
    /\ entry_date = NoDate
    /\ SignalsNotRun
    /\ PipelineNotRun

NextPerformance == CalculateMetrics \/ AnalyzeTrades

SpecPerformance == InitPerformance /\ [][NextPerformance]_vars

(***************************************************************************)
(* Specification of the signal composer on a strategy whose one rule is    *)
(* sma_crossover: every price table of up to NSmaBars bars with closes in  *)
(* 1..3 and every pair of periods in 1..MaxSmaPeriod.                      *)
(***************************************************************************)
SmaPeriods == 1..MaxSmaPeriod

SmaCrossoverRule(fast_period, slow_period) ==
    [type |-> "sma_crossover", weight |-> Num(1),
     parameters |-> [fast_period |-> fast_period, slow_period |-> slow_period]]

\* closes of an uptrend followed by a downtrend
SmaExampleCloses == <<10, 11, 12, 13, 12, 11, 10>>

InitSma ==
    /\ pc = "calculate_signals"
    /\ \/ /\ \E n \in 0..NSmaBars :
               \E c \in [1..n -> {1, 2, 3}] :
                  data = PriceTable(n, n, c, 0, Num(1))
          /\ \E f \in SmaPeriods, sl \in SmaPeriods :
               categories = <<[key |-> "entry", weight |-> Num(1),
                               rules |-> <<SmaCrossoverRule(f, sl)>>]>>
       \/ /\ \E n \in 0..Len(SmaExampleCloses) :
               data = PriceTable(n, n, SubSeq(SmaExampleCloses, 1, n), 0, Num(1))
          /\ categories = <<[key |-> "entry", weight |-> Num(1),
                             rules |-> <<SmaCrossoverRule(2, 3)>>]>>
    /\ signals = <<>>
    /\ sizing = SizingSpec("fixed_percentage", Rat(3, 5))
    /\ positions = <<>>
    /\ i = 1
    /\ trades = <<>>
    /\ current_position = Num(0)
    /\ entry_price = NoPrice
    /\ entry_date = NoDate
    /\ equity = <<>>
    /\ final_signal = <<>>
    /\ total_weight = Num(0)
    /\ category_signal = <<>>
    /\ ci = 1
    /\ ri = 1
    /\ rule_signals = <<>>
    /\ PipelineNotRun

SpecSma == InitSma /\ [][NextSignal]_vars

(***************************************************************************)
(* Specification of the rule manager followed by the signal composer:      *)
(* every sequence of add_rule, remove_rule and set_category_weight calls   *)
(* that keeps at most MaxManagerRules rules, then get_rules_config and the *)
(* generated calculate_signals on one bar.                                 *)
(***************************************************************************)
\* categories given to remove_rule: those of the catalog and an unknown one
RemoveCategories == ManagerCategories \cup {"filter"}

\* indices given to remove_rule: -1 and one past the longest list included
RemoveIndices == (-1)..MaxManagerRules

InitManager ==
    /\ pc = "strategy_manager"
    /\ data = PriceTable(1, 1, <<1>>, 0, Num(1))
    /\ categories = <<>>
    /\ signals = <<>>
    /\ sizing = SizingSpec("fixed_percentage", Rat(3, 5))
    /\ positions = <<>>
    /\ i = 1
    /\ trades = <<>>
    /\ current_position = Num(0)
    /\ entry_price = NoPrice
    /\ entry_date = NoDate
    /\ equity = <<>>
    /\ final_signal = <<>>
    /\ total_weight = Num(0)
    /\ category_signal = <<>>
    /\ ci = 1
    /\ ri = 1
    /\ rule_signals = <<>>
    /\ PipelineNotRun

NextManager ==
    \/ \E c \in ManagerCategories,
          p \in {[weight |-> Rat(1, 2)], [lookback |-> 1]} : AddRule(c, "roc", p)
    \/ \E c \in RemoveCategories, index \in RemoveIndices : RemoveRule(c, index)
    \/ \E c \in ManagerCategories, w \in {Rat(1, 2), Num(1)} : SetCategoryWeight(c, w)
    \/ GetRulesConfig
    \/ NextSignal

SpecManager == InitManager /\ [][NextManager]_vars

(***************************************************************************)
(* Specification of a driver's run: generate_complete_strategy, then       *)
(* run_backtest through all its stages and analyze_performance, and the    *)
(* same run once more, on every strategy of up to one category with known  *)
(* and unknown rule types and sizing methods, and on no table, empty       *)
(* tables and tables without a Close column.                               *)
(***************************************************************************)
\* analyze_performance called whatever run_backtest returned
AnalyzePerformanceAlways ==
    /\ pc = "returned"
    /\ pc' = "calculate_metrics"
    /\ UNCHANGED <<btVars, sigVars, pipeVars>>

\* the drivers call analyze_performance only `if backtest_results['status']
\* == 'success'`
AnalyzePerformance ==
    /\ pc = "returned"
    /\ result.status = "success"
    /\ pc' = "calculate_metrics"
    /\ UNCHANGED <<btVars, sigVars, pipeVars>>

\* current_position at the start of a call of _generate_trades, were it a
\* field of the agent
HeldAtCallStart == current_position

\* `current_position = 0`: a local of each call of _generate_trades
FlatAtCallStart == Num(0)

\* what a run leaves with the driver
RunOutcome ==
    [status |-> "ran", result |-> result, rule_signals |-> rule_signals,
     signals |-> signals, positions |-> positions, trades |-> trades,
     equity |-> equity, metrics |-> metrics, trade_stats |-> trade_stats]

RunIsOver ==
    \/ pc = "analyzed"
    \/ pc = "returned" /\ result.status = "error"

\* a second run_backtest and analyze_performance on the same agents, price
\* table and strategy: every stage is a call whose locals are created anew
\* and the agents have no field that a stage writes
RunBacktestAgain ==
    /\ RunIsOver
    /\ first_run = NoRun
    /\ first_run' = RunOutcome
    /\ pc' = "run_backtest"
    /\ result' = NoResult
    /\ metrics' = NoMetrics
    /\ trade_stats' = NoStats
    /\ signals' = <<>>
    /\ positions' = <<>>
    /\ i' = 1
    /\ trades' = <<>>
    /\ current_position' = FlatAtCallStart
    /\ entry_price' = NoPrice
    /\ entry_date' = NoDate
    /\ equity' = <<>>
    /\ final_signal' = <<>>
    /\ total_weight' = Num(0)
    /\ category_signal' = <<>>
    /\ ci' = 1
    /\ ri' = 1
    /\ rule_signals' = <<>>
    /\ UNCHANGED <<data, sizing, categories, strategy_type, tables, other_call,
                   driver, manager>>

InitPipeline ==
    /\ pc = "generate_complete_strategy"
    /\ strategy_type \in {"combined", "momentum"}
    /\ categories \in CategoryConfigs(1, {Num(1)}, {"roc", "macd"}, {Num(1)}, NPipeRules)
    /\ \E m \in {"fixed_percentage", "volatility_targeting", "martingale"} :
         sizing = SizingSpec(m, Rat(3, 5))
    /\ \/ tables = <<>>
       \/ \E n \in 0..NPipeBars, cols \in {Columns, Columns \ {"Close"}} :
            \E c \in [1..n -> SizingCloseVals] :
               tables = <<[PriceTable(n, n, c, 0, Num(1)) EXCEPT !.columns = cols]>>
    /\ data = PriceTable(0, 0, <<>>, 0, Num(1))
    /\ result = NoResult
    /\ PerformanceNotRun
    /\ signals = <<>>
    /\ positions = <<>>
    /\ i = 1
    /\ trades = <<>>
    /\ current_position = Num(0)
    /\ entry_price = NoPrice
    /\ entry_date = NoDate
    /\ equity = <<>>
    /\ final_signal = <<>>
    /\ total_weight = Num(0)
    /\ category_signal = <<>>
    /\ ci = 1
    /\ ri = 1
    /\ rule_signals = <<>>

NextPipeline ==
    \/ GenerateCompleteStrategy
    \/ RunBacktestBegin
    \/ NextSignal
    \/ ExecuteStrategyReturn
    \/ NextSizing
    \/ RunBacktestReturn
    \/ RunBacktestExcept
    \/ AnalyzePerformance
    \/ NextPerformance
    \/ RunBacktestAgain

SpecPipeline == InitPipeline /\ [][NextPipeline]_vars

(***************************************************************************)
(* Specification of the two drivers, the Run Backtest button of app.py and *)
(* test_momentum_strategy: fetch data, generate the strategy code, run the *)
(* backtest and analyze the performance.                                   *)
(***************************************************************************)
\* DataAgent.fetch_data returns a table with at least one bar, or a message
FetchedTables(maxn) ==
    UNION {{<<PriceTable(n, n, c, 0, Num(1))>> : c \in [1..n -> SizingCloseVals]} :
              n \in 1..maxn}

\* `data = data_agent.fetch_data(symbol, period)`: the app returns when the
\* result is a message; test_momentum_strategy passes three arguments to
\* the two-parameter method, which raises TypeError
FetchData ==
    /\ pc = "fetch_data"
    /\ IF driver = "test_strategy"
       THEN pc' = "raised" /\ UNCHANGED tables
       ELSE \/ pc' = "fetch_failed" /\ UNCHANGED tables
            \/ /\ tables' \in FetchedTables(NPipeBars)
               /\ pc' = "generate_complete_strategy"
    /\ UNCHANGED <<btVars, sigVars, strategy_type, result, metrics, trade_stats,
                   first_run, other_call, driver, manager>>

InitDriver ==
    /\ pc = "fetch_data"
    /\ driver \in {"app", "test_strategy"}
    /\ strategy_type = IF driver = "app" THEN "combined" ELSE "momentum"
    /\ categories \in CategoryConfigs(1, {Num(1)}, {"roc", "macd"}, {Num(1)}, NPipeRules)
    /\ \E m \in {"fixed_percentage", "volatility_targeting"} :
         sizing = SizingSpec(m, Rat(3, 5))
    /\ tables = <<>>
    /\ data = PriceTable(0, 0, <<>>, 0, Num(1))
    /\ result = NoResult
    /\ metrics = NoMetrics
    /\ trade_stats = NoStats
    /\ first_run = NoRun
    /\ other_call = NoCall
    /\ manager = NewManager
    /\ signals = <<>>
    /\ positions = <<>>
    /\ i = 1
    /\ trades = <<>>
    /\ current_position = Num(0)
    /\ entry_price = NoPrice
    /\ entry_date = NoDate
    /\ equity = <<>>
    /\ final_signal = <<>>
    /\ total_weight = Num(0)
    /\ category_signal = <<>>
    /\ ci = 1
    /\ ri = 1
    /\ rule_signals = <<>>

NextDriver ==
    \/ FetchData
    \/ GenerateCompleteStrategy
    \/ RunBacktestBegin
    \/ NextSignal
    \/ ExecuteStrategyReturn
    \/ NextSizing
    \/ RunBacktestReturn
    \/ RunBacktestExcept
    \/ AnalyzePerformance
    \/ NextPerformance

SpecDriver == InitDriver /\ [][NextDriver]_vars

(***************************************************************************)
(* Claims about the trade generator and the equity simulator (under Spec). *)
(***************************************************************************)
NoNaNPositions == \A t \in 1..Len(positions) : ~IsNaN(positions[t])

\* position of the bar before t; flat before the first bar
PrevPos(t) == IF t = 1 THEN Num(0) ELSE positions[t - 1]

\* number of bars the loop of _generate_trades has been through
TradeBarsDone == IF pc = "generate_trades" THEN i - 1 ELSE Len(positions)

ChangeBars(upto) == {t \in 1..upto : positions[t] # PrevPos(t)}

\* C1: for a position series without NaN, after the loop has walked the
\* first k bars in order, starting from current_position = 0, the trades are
\* exactly one per bar whose position differs from the position held before
\* it (which is current_position at that bar) and none for the other bars;
\* trade dates are strictly increasing, so no bar has two trades.
C1_OneTradePerChange ==
    NoNaNPositions =>
        /\ current_position = PrevPos(TradeBarsDone + 1)
        /\ Len(trades) = Cardinality(ChangeBars(TradeBarsDone))
        /\ \A t \in ChangeBars(TradeBarsDone) :
               \E k \in 1..Len(trades) : trades[k].date = data.dates[t]
        /\ \A k \in 1..Len(trades) :
               \E t \in ChangeBars(TradeBarsDone) : trades[k].date = data.dates[t]
        /\ \A k \in 1..(Len(trades) - 1) : trades[k].date < trades[k + 1].date

C1_Witness ==
    /\ pc = "done"
    /\ NoNaNPositions
    /\ Len(positions) = 3
    /\ positions[1] = Num(1) /\ positions[2] = Num(1) /\ positions[3] = Rat(1, 2)
    /\ Len(trades) = 2

\* C2: every trade emitted at bar t has, when the position held before the
\* change is nonzero, pnl = (close(t) - entry_price) * current_position with
\* the stored entry_price (which is set) and hold_time = the days from
\* entry_date to t; when the position held before is 0, pnl = 0 and
\* hold_time = 0.
C2_PnlOfPreChangePosition ==
    [][(pc = "generate_trades" /\ Len(trades') = Len(trades) + 1) =>
         LET tr == trades'[Len(trades')]
         IN  IF FNe(current_position, Num(0))
             THEN /\ entry_price # NoPrice
                  /\ entry_date # NoDate
                  /\ tr.pnl = FMul(FSub(Num(data.Close[i]), entry_price),
                                   current_position)
                  /\ tr.hold_time = data.dates[i] - entry_date
             ELSE /\ tr.pnl = Num(0)
                  /\ tr.hold_time = 0]_vars

\* a partial exit from 1 to 1/2 two bars and four days after the entry,
\* with the price up by 2: pnl = 2 * 1 on the whole pre-change position
C2_Witness ==
    /\ pc = "done"
    /\ Len(trades) = 2
    /\ trades[1].position = Num(1)
    /\ trades[2].position = Rat(1, 2)
    /\ trades[2].pnl = Num(2)
    /\ trades[2].hold_time = 4

\* C3: a bar whose position is NaN is a no-change bar: no trade is dated at
\* it, current_position never becomes NaN, and no trade has a NaN size,
\* resulting position or pnl.
C3_NaNBarIsSkipped ==
    /\ ~IsNaN(current_position)
    /\ \A k \in 1..Len(trades) :
          /\ ~IsNaN(trades[k].size)
          /\ ~IsNaN(trades[k].position)
          /\ ~IsNaN(trades[k].pnl)
          /\ \A t \in 1..Len(positions) :
                data.dates[t] = trades[k].date => ~IsNaN(positions[t])

\* number of bars of the equity curve that have their final value
EquityBarsDone ==
    IF pc = "equity_loop" THEN i - 1
    ELSE IF pc = "done" THEN Len(equity)
    ELSE 0

\* close[t]/close[t-1] - 1, for t > 1
PctChange(t) == Rat(data.Close[t] - data.Close[t - 1], data.Close[t - 1])

\* C4: equity[0] = 1.0 and every later bar t has equity[t] = equity[t-1] *
\* (1 + position[t] * ret[t]) with ret[t] = close[t]/close[t-1] - 1 and the
\* position of the same bar t, except that the value is frozen at
\* equity[t-1] when position[t] (or ret[t]) is NaN.
C4_EquityRecurrence ==
    /\ pc = "done" => Len(equity) = NBarsOf(data)
    /\ EquityBarsDone >= 1 => equity[1] = Num(1)
    /\ \A t \in 2..EquityBarsDone :
          equity[t] = IF IsNaN(positions[t]) \/ IsNaN(PctChange(t))
                      THEN equity[t - 1]
                      ELSE FMul(equity[t - 1],
                                FAdd(Num(1), FMul(positions[t], PctChange(t))))

\* bar 2 compounds with its own position (not bar 1's), bar 3 is frozen by
\* a NaN position although the price moved
C4_Witness ==
    /\ pc = "done"
    /\ Len(equity) = 3
    /\ positions[1] = Num(0) /\ positions[2] = Num(1) /\ IsNaN(positions[3])
    /\ data.Close[1] = 1 /\ data.Close[2] = 2 /\ data.Close[3] = 3
    /\ equity[2] = Num(2)
    /\ equity[3] = Num(2)

(***************************************************************************)
(* Claims about the sizing stage (under SpecSizing).                       *)
(***************************************************************************)
FlatSignal == \A t \in 1..Len(signals) : signals[t] = Num(0)

\* the volatility or ATR the sizing method divides by at bar t
Divisor(t) ==
    IF sizing.method = "equal_risk" THEN Atr(t, sizing.atr_periods)
    ELSE Vol(t, sizing.lookback)

DivisorUndefinedOrZero(t) == IsNaN(Divisor(t)) \/ Divisor(t) = Num(0)

\* C5: with a composite signal of 0 at every bar, under
\* fixed percent, volatility_targeting, equal_risk and kelly_criterion the
\* position is 0 at every bar (also where volatility or ATR is undefined or
\* zero), no trade is emitted and the equity curve is 1.0 at every bar.
C5_FlatSignalFlatBook ==
    (/\ pc = "done"
     /\ FlatSignal
     /\ sizing.method \in {"fixed_percentage", "volatility_targeting",
                           "equal_risk", "kelly_criterion"})
    => /\ \A t \in 1..Len(positions) : positions[t] = Num(0)
       /\ trades = <<>>
       /\ \A t \in 1..Len(equity) : equity[t] = Num(1)

\* C6: under volatility_targeting, inverse_volatility and equal_risk a bar
\* whose volatility/ATR is zero or NaN has a NaN position, whatever the
\* signal at that bar.
C6_ZeroOrNaNDivisorGivesNaN ==
    (/\ pc # "apply_position_sizing"
     /\ sizing.method \in {"volatility_targeting", "inverse_volatility",
                           "equal_risk"})
    => \A t \in 1..Len(positions) :
          DivisorUndefinedOrZero(t) => IsNaN(positions[t])

(***************************************************************************)
(* Claims about the signal composer (under SpecSignal).                    *)
(***************************************************************************)
RECURSIVE RefWeightedSum(_, _, _, _)
\* sum over the first r rules of rule_signal(t) * rule_weight
RefWeightedSum(rules, raws, r, t) ==
    IF r = 0 THEN Num(0)
    ELSE FAdd(RefWeightedSum(rules, raws, r - 1, t),
              FMul(Num(raws[r][t]), rules[r].weight))

\* sign of the category's weighted sum: -1, 0 or 1
RefCategorySignal(cat, raws, t) ==
    Sgn(RefWeightedSum(cat.rules, raws, Len(cat.rules), t))

RECURSIVE RefTotalWeight(_, _)
RefTotalWeight(cats, c) ==
    IF c = 0 THEN Num(0) ELSE FAdd(RefTotalWeight(cats, c - 1), cats[c].weight)

\* the part of the composite that category c contributes at bar t
RefShare(cats, sigs, c, t) ==
    LET total == RefTotalWeight(cats, Len(cats))
        part == FMul(Num(RefCategorySignal(cats[c], sigs[c], t)), cats[c].weight)
    IN  IF FGt(total, Num(0)) THEN FDiv(part, total) ELSE part

RECURSIVE RefComposite(_, _, _, _)
RefComposite(cats, sigs, c, t) ==
    IF c = 0 THEN Num(0)
    ELSE FAdd(RefComposite(cats, sigs, c - 1, t), RefShare(cats, sigs, c, t))

\* the configuration with every rule weight of category c multiplied by k
ScaleRules(cats, c, k) ==
    [cats EXCEPT ![c].rules =
        [r \in DOMAIN @ |-> [@[r] EXCEPT !.weight = FMul(@, k)]]]

\* the configuration with rule r of category c entered twice, and the rule
\* signals it then gets
DuplicateRule(cats, c, r) == [cats EXCEPT ![c].rules = Append(@, @[r])]

DuplicateSignal(sigs, c, r) == [sigs EXCEPT ![c] = Append(@, @[r])]

WeightsNonNegative == \A c \in 1..Len(categories) : ~FLt(categories[c].weight, Num(0))

\* C9: when every category weight is >= 0 and their sum is > 0, the
\* composite signal returned by calculate_signals is in [-1, 1] at every
\* bar, for every number of categories and rules and all rule weights; what
\* a category adds to the composite is its signal re-quantized to -1, 0, 1.
C9_CompositeInUnitRange ==
    /\ (pc = "category" /\ ci > 1) =>
          \A t \in Bars : category_signal[t] \in {Num(-1), Num(0), Num(1)}
    /\ (/\ pc = "signals_done"
        /\ WeightsNonNegative
        /\ FGt(RefTotalWeight(categories, Len(categories)), Num(0))) =>
          \A t \in Bars : /\ ~FLt(final_signal[t], Num(-1))
                          /\ ~FGt(final_signal[t], Num(1))
                          /\ IsNum(final_signal[t])

\* two categories, of two rules and of one rule, all three rules short: the
\* weighted sums are -3 and -2, the composite is -1
C9_Witness ==
    /\ pc = "signals_done"
    /\ Len(categories) = 2
    /\ categories[1].weight = Rat(1, 2) /\ categories[2].weight = Num(1)
    /\ Len(categories[1].rules) = 2 /\ Len(categories[2].rules) = 1
    /\ RefWeightedSum(categories[1].rules, rule_signals[1], 2, 1) = Num(-3)
    /\ RefWeightedSum(categories[2].rules, rule_signals[2], 1, 1) = Num(-2)
    /\ final_signal[1] = Num(-1)

ScaleFactors == {Num(2), Num(3), Rat(1, 2)}

CompositionIsTwoStage ==
    \A t \in Bars :
       /\ final_signal[t] = RefComposite(categories, rule_signals, Len(categories), t)
       /\ RefTotalWeight(categories, Len(categories)) = Num(0) =>
             final_signal[t] = Num(0)
       /\ total_weight = RefTotalWeight(categories, Len(categories))

ScalingKeepsShare ==
    \A t \in Bars, c \in 1..Len(categories), k \in ScaleFactors :
       RefShare(ScaleRules(categories, c, k), rule_signals, c, t)
          = RefShare(categories, rule_signals, c, t)

\* C10 (as stated): the composite is the weight-normalised sum of the signs
\* of the categories' weighted rule sums, and 0 when the total category
\* weight is 0; scaling all rule weights of a category by a positive factor,
\* or duplicating a rule in it, does not change that category's share of the
\* composite.
C10_TwoStageScaleAndDuplicate ==
    pc = "signals_done" =>
       /\ CompositionIsTwoStage
       /\ ScalingKeepsShare
       /\ \A t \in Bars, c \in 1..Len(categories) :
             \A r \in 1..Len(categories[c].rules) :
                RefShare(DuplicateRule(categories, c, r),
                         DuplicateSignal(rule_signals, c, r), c, t)
                   = RefShare(categories, rule_signals, c, t)

\* C10 (amended): as stated for the two stages, the zero total weight and
\* the scaling of rule weights; duplicating a rule leaves the category's
\* share unchanged when that rule's weighted signal is 0 or has the sign of
\* the category's weighted sum (otherwise it can change the share).
C10_TwoStageScaleAmended ==
    pc = "signals_done" =>
       /\ CompositionIsTwoStage
       /\ ScalingKeepsShare
       /\ \A t \in Bars, c \in 1..Len(categories) :
             \A r \in 1..Len(categories[c].rules) :
                LET term == FMul(Num(rule_signals[c][r][t]),
                                 categories[c].rules[r].weight)
                IN  (Sgn(term) = 0
                       \/ Sgn(term) = RefCategorySignal(categories[c], rule_signals[c], t))
                    => RefShare(DuplicateRule(categories, c, r),
                                DuplicateSignal(rule_signals, c, r), c, t)
                          = RefShare(categories, rule_signals, c, t)

\* weights 1/2 and 1; the first category's rules sum to 3 and count as +1,
\* the second category is short: composite = (1/2 - 1) / (3/2) = -1/3
C10_Witness ==
    /\ pc = "signals_done"
    /\ Len(categories) = 2
    /\ categories[1].weight = Rat(1, 2) /\ categories[2].weight = Num(1)
    /\ Len(categories[1].rules) = 2
    /\ RefWeightedSum(categories[1].rules, rule_signals[1], 2, 1) = Num(3)
    /\ RefCategorySignal(categories[2], rule_signals[2], 1) = -1
    /\ final_signal[1] = Rat(-1, 3)

(***************************************************************************)
(* Claims about configuration and data errors (under SpecPipeline).        *)
(***************************************************************************)
UnknownRuleType ==
    \E c \in 1..Len(categories) :
       \E r \in 1..Len(categories[c].rules) :
          categories[c].rules[r].type \notin RuleTypes

UnknownSizingMethod == sizing.method \notin SizingMethods

\* control positions inside the simulation stages of run_backtest
StagePositions ==
    {"category", "rule", "signals_done", "apply_position_sizing",
     "generate_trades", "calculate_equity_curve", "equity_loop", "done"}

\* C7: a strategy naming an unknown rule_type or an unknown sizing method
\* is rejected before any simulation stage (signal execution, sizing, trade
\* generation, equity simulation) has started, and never ends in a
\* successful backtest under some default.
C7_UnknownConfigRejectedBeforeStages ==
    (UnknownRuleType \/ UnknownSizingMethod) =>
        /\ pc \notin StagePositions
        /\ result.status # "success"

EmptyOrMalformedTable ==
    \/ tables = <<>>
    \/ NBarsOf(tables[1]) = 0
    \/ "Close" \notin tables[1].columns

\* C8: run_backtest on no table, on a table with zero bars or on a table
\* without the Close column returns status error (and does not raise);
\* it never returns status success for an empty table.
C8_EmptyOrMalformedTableIsError ==
    /\ (pc = "returned" /\ EmptyOrMalformedTable) => result.status = "error"
    /\ pc = "raised" => (GenerateRaises /\ result = NoResult)

TradeExamplePositions == <<Num(0), Num(0), Num(1), Num(1), Num(0)>>

IsTradeExample ==
    /\ data.Close = TradeExampleCloses
    /\ positions = TradeExamplePositions

TradeExampleTrades ==
    <<[date |-> data.dates[3], price |-> Num(105), size |-> Num(1),
       direction |-> "BUY", position |-> Num(1), pnl |-> Num(0),
       hold_time |-> 0],
      [date |-> data.dates[5], price |-> Num(103), size |-> Num(-1),
       direction |-> "SELL", position |-> Num(0), pnl |-> Num(-2),
       hold_time |-> data.dates[5] - data.dates[3]]>>

\* number of trades the example has emitted once bars 1..k are processed
TradeExampleCount(k) == IF k < 3 THEN 0 ELSE IF k < 5 THEN 1 ELSE 2

C12_TradeExample ==
    IsTradeExample =>
        trades = SubSeq(TradeExampleTrades, 1, TradeExampleCount(TradeBarsDone))

C12_Witness ==
    /\ IsTradeExample
    /\ pc = "done"
    /\ trades = TradeExampleTrades
    /\ trades[2].hold_time = 4

\* C13: every trade emitted at bar t records date = t, price = close(t),
\* size = position(t) - current_position (the position held before the
\* change), direction = BUY exactly when position(t) > current_position and
\* SELL otherwise, and resulting position = position(t); the trades emitted
\* before it are left as they were.
C13_TradeRecordFields ==
    [][(pc = "generate_trades" /\ Len(trades') = Len(trades) + 1) =>
         LET tr == trades'[Len(trades')]
         IN  /\ SubSeq(trades', 1, Len(trades)) = trades
             /\ tr.date = data.dates[i]
             /\ tr.price = Num(data.Close[i])
             /\ tr.size = FSub(positions[i], current_position)
             /\ tr.direction = "BUY" <=> FGt(positions[i], current_position)
             /\ tr.direction = "SELL" <=> ~FGt(positions[i], current_position)
             /\ tr.position = positions[i]]_vars

\* a reversal from long 1 to short 1 at a close of 2 on the day after a gap:
\* SELL of size -2, and then a reversal to long 1/2: BUY of size 3/2
C13_Witness ==
    /\ pc = "done"
    /\ Len(trades) = 3
    /\ trades[2].date = 4
    /\ trades[2].price = Num(2)
    /\ trades[2].size = Num(-2)
    /\ trades[2].direction = "SELL"
    /\ trades[2].position = Num(-1)
    /\ trades[3].size = Rat(3, 2)
    /\ trades[3].direction = "BUY"
    /\ trades[3].position = Rat(1, 2)

\* C14: after every trade whose resulting position is nonzero, a partial
\* adjustment between two nonzero positions of the same sign included,
\* entry_price = close(t) and entry_date = t; after a trade whose resulting
\* position is 0, entry_price and entry_date keep their values; in both
\* cases current_position becomes position(t).  The entry is thus always
\* one bar's close, never an average over fills.
C14_EntryRebasing ==
    [][(pc = "generate_trades" /\ Len(trades') = Len(trades) + 1) =>
         /\ current_position' = positions[i]
         /\ IF FNe(positions[i], Num(0))
            THEN /\ entry_price' = Num(data.Close[i])
                 /\ entry_date' = data.dates[i]
            ELSE /\ entry_price' = entry_price
                 /\ entry_date' = entry_date]_vars

\* entry at 1 for one unit, half of it sold at 2 after the gap (the entry
\* moves to 2 and to that date), the rest sold at 3 (the entry stays)
C14_Witness ==
    /\ pc = "done"
    /\ Len(trades) = 3
    /\ trades[1].position = Num(1) /\ trades[1].price = Num(1)
    /\ trades[2].position = Rat(1, 2) /\ trades[2].price = Num(2)
    /\ trades[3].position = Num(0) /\ trades[3].price = Num(3)
    /\ trades[3].pnl = Rat(1, 2)
    /\ entry_price = Num(2)
    /\ entry_date = 4
    /\ current_position = Num(0)

(***************************************************************************)
(* C15: with the position 1 at every bar (and no NaN) the equity curve     *)
(* telescopes to equity[t] = close[t] / close[0] at every bar t; on five   *)
(* bars with a return of 1% per bar it is [1, 1.01, 1.0201, 1.030301,      *)
(* 1.04060401].                                                            *)
(***************************************************************************)
FullyInvested == \A t \in 1..Len(positions) : positions[t] = Num(1)

OnePercentEquity ==
    <<Num(1), Rat(101, 100), Rat(10201, 10000), Rat(1030301, 1000000),
      Rat(104060401, 100000000)>>

C15_EquityTelescopes ==
    FullyInvested =>
        /\ \A t \in 1..EquityBarsDone :
              equity[t] = Rat(data.Close[t], data.Close[1])
        /\ (data.Close = OnePercentCloses /\ pc = "done")
              => equity = OnePercentEquity

C15_Witness ==
    /\ FullyInvested
    /\ data.Close = OnePercentCloses
    /\ pc = "done"
    /\ equity[5] = Rat(104060401, 100000000)
    /\ equity[2] = Rat(101, 100)

(***************************************************************************)
(* Claims about the performance statistics (under SpecPerformance).        *)
(***************************************************************************)
Winners == {k \in 1..Len(trades) : FGt(trades[k].pnl, Num(0))}

Losers == {k \in 1..Len(trades) : FLt(trades[k].pnl, Num(0))}

\* the sum of the pnl of the trades whose index is in S
PnlOver(S) ==
    FSum([k \in 1..Len(trades) |-> IF k \in S THEN trades[k].pnl ELSE Num(0)],
         1, Len(trades))

HoldTimeTotal ==
    FSum([k \in 1..Len(trades) |-> Num(trades[k].hold_time)], 1, Len(trades))

\* C16: for a non-empty trade list with no trade of pnl < 0 and at least
\* one of pnl > 0, profit_factor = +infinity; when losing trades exist with
\* a nonzero pnl sum, profit_factor = |sum of winning pnl / sum of losing
\* pnl|.
C16_ProfitFactor ==
    (pc = "analyzed" /\ Len(trades) > 0) =>
        /\ (Losers = {} /\ Winners # {})
              => trade_stats.profit_factor = Inf(1)
        /\ (Losers # {} /\ FNe(PnlOver(Losers), Num(0)))
              => trade_stats.profit_factor =
                    FAbs(FDiv(PnlOver(Winners), PnlOver(Losers)))

\* an entry with pnl 0 followed by a winning exit: no loser, one winner
C16_Witness ==
    /\ pc = "analyzed"
    /\ Len(trades) = 2
    /\ trades[1].pnl = Num(0)
    /\ trades[2].pnl = Num(3)
    /\ trade_stats.profit_factor = Inf(1)

ConstantCurve == \A t \in 1..Len(equity) : equity[t] = equity[1]

\* C17: for every constant equity curve, of every length, the Sharpe ratio
\* reported by calculate_metrics is 0 (not NaN).
C17_SharpeZeroOnConstantCurve ==
    (metrics # NoMetrics /\ ConstantCurve) => metrics.sharpe_ratio = Num(0)

\* C18: on an empty trade list every statistic is 0; on a non-empty list
\* total_trades is the number of trades, win_rate = 100 * count(pnl > 0) /
\* count(all trades), with the trades of pnl 0 in the denominator, avg_win
\* (avg_loss) is the mean pnl of the winning (losing) trades and 0 when
\* there is none, and avg_hold_time is the mean hold_time over all trades.
C18_TradeStatistics ==
    pc = "analyzed" =>
        IF Len(trades) = 0
        THEN trade_stats =
                [total_trades |-> 0, win_rate |-> Num(0), avg_win |-> Num(0),
                 avg_loss |-> Num(0), profit_factor |-> Num(0),
                 avg_hold_time |-> Num(0)]
        ELSE /\ trade_stats.total_trades = Len(trades)
             /\ trade_stats.win_rate =
                   Rat(100 * Cardinality(Winners), Len(trades))
             /\ trade_stats.avg_win =
                   IF Winners = {} THEN Num(0)
                   ELSE FDiv(PnlOver(Winners), Num(Cardinality(Winners)))
             /\ trade_stats.avg_loss =
                   IF Losers = {} THEN Num(0)
                   ELSE FDiv(PnlOver(Losers), Num(Cardinality(Losers)))
             /\ trade_stats.avg_hold_time =
                   FDiv(HoldTimeTotal, Num(Len(trades)))

\* an entry with pnl 0 and a winning exit four days later: one winner out
\* of two trades, no loser
C18_Witness ==
    /\ pc = "analyzed"
    /\ Len(trades) = 2
    /\ trades[1].pnl = Num(0) /\ trades[1].hold_time = 0
    /\ trades[2].pnl = Num(1) /\ trades[2].hold_time = 4
    /\ trade_stats.win_rate = Num(50)
    /\ trade_stats.avg_win = Num(1)
    /\ trade_stats.avg_loss = Num(0)
    /\ trade_stats.avg_hold_time = Num(2)

(***************************************************************************)
(* C19: under Kelly sizing position(t) = signal(t) * min(0.5 * kelly,      *)
(* max_size) with kelly = (profit_ratio * win_rate - (1 - win_rate)) /     *)
(* profit_ratio; for win_rate 0.6 and profit_ratio 2 (kelly 0.4, half-     *)
(* Kelly 0.2) and any signal in [-1, 1], |position(t)| never exceeds       *)
(* min(0.2, max_size).                                                     *)
(***************************************************************************)
RefKelly ==
    FDiv(FSub(FMul(sizing.profit_ratio, sizing.win_rate),
              FSub(Num(1), sizing.win_rate)),
         sizing.profit_ratio)

RefHalfKelly == FMul(Rat(1, 2), RefKelly)

RefKellyCap ==
    IF FLt(sizing.max_size, RefHalfKelly) THEN sizing.max_size ELSE RefHalfKelly

KellySized == sizing.method = "kelly_criterion" /\ pc # "apply_position_sizing"

C19_KellyBound ==
    KellySized =>
        /\ \A t \in 1..Len(positions) :
              positions[t] = FMul(signals[t], RefKellyCap)
        /\ (sizing.win_rate = Rat(3, 5) /\ sizing.profit_ratio = Num(2)) =>
              /\ RefKelly = Rat(2, 5)
              /\ KellySizing(sizing) = Rat(1, 5)
              /\ \A t \in 1..Len(positions) :
                    /\ ~FGt(FAbs(positions[t]), Rat(1, 5))
                    /\ ~FGt(FAbs(positions[t]), sizing.max_size)

\* a size limit of 0.1 below the half-Kelly fraction 0.2 binds on a short
\* signal of -1, and a signal of 1/2 gives half of the limit
C19_Witness ==
    /\ KellySized
    /\ sizing.win_rate = Rat(3, 5)
    /\ sizing.max_size = Rat(1, 10)
    /\ Len(positions) = 2
    /\ signals[1] = Num(-1) /\ positions[1] = Rat(-1, 10)
    /\ signals[2] = Rat(1, 2) /\ positions[2] = Rat(1, 20)

(***************************************************************************)
(* Claims about the rule implementations (under SpecSma).                  *)
(***************************************************************************)
SmaRuleRan ==
    /\ Len(categories) >= 1
    /\ Len(categories[1].rules) >= 1
    /\ categories[1].rules[1].type = "sma_crossover"
    /\ Len(rule_signals) >= 1
    /\ Len(rule_signals[1]) >= 1

\* the closes of the window of `period` bars that ends at bar t
WindowTotal(period, t) ==
    LET total[k \in 0..period] ==
            IF k = 0 THEN 0 ELSE total[k - 1] + data.Close[t - k + 1]
    IN  total[period]

\* both windows are full at bar t
SmasDefined(fast_period, slow_period, t) == t >= fast_period /\ t >= slow_period

\* fast SMA > slow SMA at bar t, by cross-multiplication
FastAbove(fast_period, slow_period, t) ==
    WindowTotal(fast_period, t) * slow_period
        > WindowTotal(slow_period, t) * fast_period

\* C20: at every bar where both the fast and the slow simple moving average
\* are defined, the sma_crossover signal is +1 if fast SMA > slow SMA and -1
\* otherwise (also when the two are equal); it is never 0 at such a bar.
C20_SmaCrossoverNeverZero ==
    SmaRuleRan =>
        LET fast_period == categories[1].rules[1].parameters.fast_period
            slow_period == categories[1].rules[1].parameters.slow_period
            signal == rule_signals[1][1]
        IN  \A t \in Bars :
               SmasDefined(fast_period, slow_period, t) =>
                  signal[t] = IF FastAbove(fast_period, slow_period, t)
                              THEN 1 ELSE -1

\* C21: on closes [10,11,12,13,12,11,10] with fast_period 2 and slow_period
\* 3, calculate_sma_crossover yields 0 at bars 1-2 (the slow window is not
\* full), +1 at bars 3 and 4 and -1 at bars 6 and 7, and the rolling means
\* are fast/slow = 11.5/11, 12.5/12, 12.5/12.33, 11.5/12, 10.5/11 at bars
\* 3..7.
IsSmaExample ==
    /\ SmaRuleRan
    /\ data.Close = SmaExampleCloses
    /\ categories[1].rules[1].parameters = [fast_period |-> 2, slow_period |-> 3]

SmaExampleFast == <<NaN, Rat(21, 2), Rat(23, 2), Rat(25, 2), Rat(25, 2),
                    Rat(23, 2), Rat(21, 2)>>

SmaExampleSlow == <<NaN, NaN, Num(11), Num(12), Rat(37, 3), Num(12), Num(11)>>

C21_SmaCrossoverExample ==
    IsSmaExample =>
        LET signal == rule_signals[1][1]
        IN  /\ signal[1] = 0 /\ signal[2] = 0
            /\ signal[3] = 1 /\ signal[4] = 1
            /\ signal[6] = -1 /\ signal[7] = -1
            /\ \A t \in 3..7 :
                  /\ RollingMean(2, t) = SmaExampleFast[t]
                  /\ RollingMean(3, t) = SmaExampleSlow[t]
                  /\ signal[t] = IF FGt(SmaExampleFast[t], SmaExampleSlow[t])
                                 THEN 1
                                 ELSE IF FLt(SmaExampleFast[t], SmaExampleSlow[t])
                                 THEN -1 ELSE 0

C21_Witness ==
    /\ IsSmaExample
    /\ pc = "signals_done"
    /\ rule_signals[1][1] = <<0, 0, 1, 1, 1, -1, -1>>
    /\ final_signal[3] = Num(1)
    /\ final_signal[7] = Num(-1)

(***************************************************************************)
(* C22: under volatility_targeting and inverse_volatility sizing every     *)
(* position that is not NaN lies in [-max_size, max_size], for every       *)
(* signal in [-1, 1] and every positive volatility, however small.         *)
(***************************************************************************)
VolSized ==
    /\ sizing.method \in {"volatility_targeting", "inverse_volatility"}
    /\ pc # "apply_position_sizing"

WithinMaxSize(x) ==
    /\ IsNum(x)
    /\ x.n * sizing.max_size.d <= sizing.max_size.n * x.d
    /\ x.n * sizing.max_size.d >= -(sizing.max_size.n * x.d)

C22_VolSizingWithinMaxSize ==
    VolSized =>
        \A t \in 1..Len(positions) :
           /\ ~IsNaN(positions[t]) => WithinMaxSize(positions[t])
           /\ ~IsNaN(VolatilityTargetingSizing(sizing, t))
                 => WithinMaxSize(VolatilityTargetingSizing(sizing, t))

\* a short signal of -1/3 at a volatility of 1/100: -1/3 * (0.2 / 0.01) is
\* cut to -max_size
C22_Witness ==
    /\ VolSized
    /\ sizing.method = "volatility_targeting"
    /\ data.vol_level = Rat(1, 100)
    /\ Len(positions) = 3
    /\ Vol(3, sizing.lookback) = Rat(1, 100)
    /\ signals[3] = Rat(-1, 3)
    /\ positions[3] = FNeg(sizing.max_size)

(***************************************************************************)
(* Claims about interleaved calls (under SpecInterleaved).                 *)
(***************************************************************************)
\* what _generate_trades has after bars 1..k of the table d and the
\* position series pos when nothing else runs
RECURSIVE AloneTrades(_, _, _)
AloneTrades(d, pos, k) ==
    IF k = 0
    THEN [trades |-> <<>>, held |-> Num(0), price |-> NoPrice, date |-> NoDate]
    ELSE LET before == AloneTrades(d, pos, k - 1)
             close == Num(d.Close[k])
             holds == FNe(before.held, Num(0))
         IN  IF FEq(pos[k], before.held) THEN before
             ELSE [trades |-> Append(before.trades,
                      [date |-> d.dates[k], price |-> close,
                       size |-> FSub(pos[k], before.held),
                       direction |-> IF FGt(pos[k], before.held)
                                     THEN "BUY" ELSE "SELL",
                       position |-> pos[k],
                       pnl |-> IF holds
                               THEN FMul(FSub(close, before.price), before.held)
                               ELSE Num(0),
                       hold_time |-> IF holds THEN d.dates[k] - before.date
                                     ELSE 0]),
                   held |-> pos[k],
                   price |-> IF FNe(pos[k], Num(0)) THEN close ELSE before.price,
                   date |-> IF FNe(pos[k], Num(0)) THEN d.dates[k]
                            ELSE before.date]

\* what _calculate_equity_curve has at bar t when nothing else runs
RECURSIVE AloneEquity(_, _, _)
AloneEquity(d, pos, t) ==
    IF t = 1 THEN Num(1)
    ELSE IF IsNaN(pos[t]) THEN AloneEquity(d, pos, t - 1)
    ELSE FMul(AloneEquity(d, pos, t - 1),
              FAdd(Num(1), FMul(pos[t], Rat(d.Close[t] - d.Close[t - 1],
                                            d.Close[t - 1]))))

\* a call is where it would be alone on its own table and position series
AsAlone(call) ==
    LET n == Len(call.positions)
        walked == IF call.pc = "generate_trades" THEN call.i - 1 ELSE n
        alone == AloneTrades(call.data, call.positions, walked)
        filled == IF call.pc = "equity_loop" THEN call.i - 1
                  ELSE IF call.pc = "done" THEN n ELSE 0
    IN  /\ call.trades = alone.trades
        /\ call.current_position = alone.held
        /\ call.entry_price = alone.price
        /\ call.entry_date = alone.date
        /\ \A t \in 1..filled :
              call.equity[t] = AloneEquity(call.data, call.positions, t)
        /\ call.pc = "done" => Len(call.equity) = Len(call.data.Close)

\* a step leaves the inputs of both calls as they were
InputsKept ==
    IF other_call' = other_call
    THEN data' = data /\ positions' = positions
    ELSE /\ data' = other_call.data /\ positions' = other_call.positions
         /\ other_call'.data = data /\ other_call'.positions = positions

\* C23: the trade generator and the equity simulator leave the price table
\* and the position series unchanged, read the same position series within
\* one run, and keep no state between calls: of two calls interleaved in
\* any order, each has at every step, and returns, the trades and the equity
\* it has when run alone.
C23_InterleavedAsAlone ==
    /\ [](other_call # NoCall => AsAlone(CallFrame) /\ AsAlone(other_call))
    /\ [][other_call # NoCall => InputsKept]_vars

\* both calls are done, each with its own two trades and its own curve
C23_Witness ==
    /\ other_call # NoCall
    /\ pc = "done" /\ other_call.pc = "done"
    /\ Len(trades) = 2 /\ Len(other_call.trades) = 2
    /\ trades[1].position = Num(1) /\ trades[2].position = Num(0)
    /\ other_call.trades[1].position = Rat(1, 2)
    /\ other_call.trades[2].position = Num(-1)
    /\ equity # other_call.equity

(***************************************************************************)
(* Claims about the drivers (under SpecDriver).                            *)
(***************************************************************************)
InBacktest ==
    pc \in {"run_backtest", "calculate_signals", "category", "rule",
            "signals_done", "apply_position_sizing", "generate_trades",
            "calculate_equity_curve", "equity_loop", "done"}

InAnalysis == pc \in {"calculate_metrics", "analyze_trades", "analyzed"}

\* the step of the driver a position of the run belongs to
DriverStep(p) ==
    CASE p = "fetch_data" -> 1
      [] p = "generate_complete_strategy" -> 2
      [] p = "returned" -> 4
      [] p \in {"calculate_metrics", "analyze_trades", "analyzed"} -> 5
      [] p \in {"fetch_failed", "raised"} -> 6
      [] OTHER -> 3

BacktestNotStarted ==
    /\ result = NoResult
    /\ rule_signals = <<>> /\ final_signal = <<>>
    /\ signals = <<>> /\ positions = <<>> /\ trades = <<>> /\ equity = <<>>

AnalysisNotStarted == metrics = NoMetrics /\ trade_stats = NoStats

\* a step goes on within a step of the driver or to the next one, or ends
\* the run; nothing follows a failed fetch, an exception or status 'error'
DriverStepsInOrder ==
    /\ DriverStep(pc') >= DriverStep(pc)
    /\ DriverStep(pc') <= DriverStep(pc) + 1 \/ DriverStep(pc') = 6
    /\ pc \notin {"fetch_failed", "raised"}
    /\ result.status # "error"

\* C24: the drivers run fetch data, generate strategy code, run backtest,
\* analyze performance in this order; analyze_performance is called only
\* after run_backtest returned status 'success' with trades, equity curve
\* and positions; after status 'error' no performance analysis runs; and in
\* the app a failed fetch prevents the backtest.
C24_DriverOrder ==
    /\ [](driver # NoDriver =>
            /\ DriverStep(pc) <= 2 => BacktestNotStarted
            /\ (InBacktest \/ pc = "returned" \/ InAnalysis) => tables # <<>>
            /\ DriverStep(pc) <= 4 => AnalysisNotStarted
            /\ InAnalysis =>
                  /\ result.status = "success"
                  /\ Len(positions) = NBarsOf(data)
                  /\ Len(equity) = NBarsOf(data)
                  /\ Len(trades) <= NBarsOf(data)
            /\ result.status = "error" =>
                  pc = "returned" /\ AnalysisNotStarted
            /\ pc = "fetch_failed" =>
                  driver = "app" /\ BacktestNotStarted /\ AnalysisNotStarted)
    /\ [][(driver # NoDriver) => DriverStepsInOrder]_vars

\* the app has fetched a table, generated the code, run the backtest to
\* success with a trade and analyzed it
C24_Witness ==
    /\ driver = "app"
    /\ pc = "analyzed"
    /\ result.status = "success"
    /\ Len(trades) >= 1
    /\ trade_stats.total_trades = Len(trades)
    /\ metrics # NoMetrics

(***************************************************************************)
(* Implicit claims about the trade generator and the equity simulator      *)
(* (under Spec).                                                           *)
(***************************************************************************)
\* the sum of the sizes of the trades dated at or before bar t
SizeTotalUpTo(t) ==
    FSum([k \in 1..Len(trades) |->
             IF trades[k].date <= data.dates[t] THEN trades[k].size ELSE Num(0)],
         1, Len(trades))

\* C25: for a position series without NaN the trades reconstruct the
\* position path: the sizes of the trades up to and including bar t sum to
\* position(t), every trade has a nonzero size, and the resulting position
\* of each trade differs from that of the trade before it (from 0 for the
\* first trade).
C25_TradesReconstructPositions ==
    NoNaNPositions =>
        /\ \A t \in 1..TradeBarsDone : SizeTotalUpTo(t) = positions[t]
        /\ \A k \in 1..Len(trades) :
              /\ trades[k].size # Num(0)
              /\ trades[k].position #
                    (IF k = 1 THEN Num(0) ELSE trades[k - 1].position)

\* 0 -> 1/2 -> 1 -> 0: sizes 1/2, 1/2 and -1
C25_Witness ==
    /\ pc = "done"
    /\ positions = <<Rat(1, 2), Num(1), Num(0)>>
    /\ Len(trades) = 3
    /\ trades[1].size = Rat(1, 2)
    /\ trades[2].size = Rat(1, 2)
    /\ trades[3].size = Num(-1)
    /\ SizeTotalUpTo(2) = Num(1)

\* C26: for every trade whose pre-change position is nonzero, the entry
\* price and entry date behind its pnl and hold_time are the close and the
\* date of the trade immediately before it: hold_time is the days since the
\* last position change, not since the position was opened, and the pnl is
\* the leg since the previous adjustment's close.
C26_EntryIsPreviousTrade ==
    /\ \A k \in 2..Len(trades) :
          FNe(trades[k - 1].position, Num(0)) =>
             /\ trades[k].pnl = FMul(FSub(trades[k].price, trades[k - 1].price),
                                     trades[k - 1].position)
             /\ trades[k].hold_time = trades[k].date - trades[k - 1].date
    /\ (pc = "generate_trades" /\ Len(trades) >= 1
          /\ FNe(current_position, Num(0))) =>
             /\ current_position = trades[Len(trades)].position
             /\ entry_price = trades[Len(trades)].price
             /\ entry_date = trades[Len(trades)].date

\* opened at 1 on day 1, halved at 2 on day 4, closed at 3 on day 5: the
\* closing trade has hold_time 1 (not 4) and pnl 1/2 * (3 - 2)
C26_Witness ==
    /\ pc = "done"
    /\ Len(trades) = 3
    /\ trades[1].date = 1 /\ trades[1].position = Num(1)
    /\ trades[2].date = 4 /\ trades[2].position = Rat(1, 2)
    /\ trades[2].hold_time = 3 /\ trades[2].pnl = Num(1)
    /\ trades[3].date = 5 /\ trades[3].position = Num(0)
    /\ trades[3].hold_time = 1 /\ trades[3].pnl = Rat(1, 2)

\* bar t lies strictly before the first trade, or there is no trade
BeforeFirstTrade(t) == Len(trades) = 0 \/ data.dates[t] < trades[1].date

\* C27: within one run, for a position series without NaN, equity[t] = 1.0
\* at every bar strictly before the date of the first trade (at every bar
\* when there is no trade), and equity[t] = equity[t-1] at every bar where
\* position(t) = 0.
C27_EquityConsistentWithTrades ==
    NoNaNPositions =>
        \A t \in 1..EquityBarsDone :
           /\ BeforeFirstTrade(t) => equity[t] = Num(1)
           /\ (t >= 2 /\ positions[t] = Num(0)) => equity[t] = equity[t - 1]

\* flat, long over a doubling price, flat again over a further rise: no
\* change before the entry at bar 2 and none at the flat bar 3
C27_Witness ==
    /\ pc = "done"
    /\ positions = <<Num(0), Num(1), Num(0)>>
    /\ data.Close = <<1, 2, 3>>
    /\ Len(trades) = 2
    /\ trades[1].date = data.dates[2]
    /\ equity = <<Num(1), Num(2), Num(2)>>

(***************************************************************************)
(* C28                                                                     *)
(***************************************************************************)
ManagerKeys(m) == [k \in 1..Len(m.active_rules) |-> m.active_rules[k].category]

HasKey(m, category) ==
    \E k \in 1..Len(m.active_rules) : m.active_rules[k].category = category

RulesOf(m, category) ==
    m.active_rules[CHOOSE k \in 1..Len(m.active_rules) :
                      m.active_rules[k].category = category].rules

ValidRemove(category, index) ==
    /\ HasKey(manager, category)
    /\ 0 <= index
    /\ index < Len(RulesOf(manager, category))

\* remove_rule takes one rule out of a category it knows and keeps every
\* category; with any other category or index it changes nothing
RemoveKeepsCategories ==
    \A c \in RemoveCategories, index \in RemoveIndices :
       /\ ValidRemove(c, index) =>
             /\ ManagerKeys(Removed(c, index)) = ManagerKeys(manager)
             /\ Len(RulesOf(Removed(c, index), c)) = Len(RulesOf(manager, c)) - 1
       /\ ~ValidRemove(c, index) => Removed(c, index) = manager

\* the configuration lists every category of the manager, in order, with its
\* weight (1 when none was set) and as many rules as the manager holds
ConfigListsEveryCategory ==
    /\ Len(categories) = Len(manager.active_rules)
    /\ \A k \in 1..Len(categories) :
          /\ categories[k].key = manager.active_rules[k].category
          /\ categories[k].weight =
                (IF manager.category_weights[categories[k].key] = UnsetWeight
                 THEN Num(1) ELSE manager.category_weights[categories[k].key])
          /\ Len(categories[k].rules) = Len(manager.active_rules[k].rules)

\* the sum of the weights of the first n categories that have no rule
EmptyWeight(cats, n) ==
    LET sum[k \in 0..n] ==
            IF k = 0 THEN Num(0)
            ELSE IF cats[k].rules = <<>> THEN FAdd(sum[k - 1], cats[k].weight)
            ELSE sum[k - 1]
    IN  sum[n]

ManagerStepKeepsCategories ==
    pc = "strategy_manager" =>
       \A k \in 1..Len(manager.active_rules) :
          /\ k <= Len(manager'.active_rules)
          /\ manager'.active_rules[k].category = manager.active_rules[k].category

\* C28: a category whose rules were all removed stays in the configuration.
\* No call of the manager drops a category, and remove_rule with an unknown
\* category or an out-of-range index changes nothing; get_rules_config lists
\* every category with its weight and its rules, an emptied category with
\* an empty rule list; the generated calculate_signals adds the weight of
\* every category to total_weight, an empty category contributes signal 0,
\* and the magnitude of the composite is at most 1 - w_empty / total_weight.
C28_EmptiedCategoryStays ==
    /\ [](/\ pc = "strategy_manager" => RemoveKeepsCategories
          /\ pc # "strategy_manager" => ConfigListsEveryCategory
          /\ pc = "signals_done" =>
                /\ total_weight = RefTotalWeight(categories, Len(categories))
                /\ \A c \in 1..Len(categories) :
                      categories[c].rules = <<>> =>
                         RefCategorySignal(categories[c], rule_signals[c], 1) = 0
                /\ ~FGt(FMul(FAbs(final_signal[1]), total_weight),
                        FSub(total_weight, EmptyWeight(categories, Len(categories)))))
    /\ [][ManagerStepKeepsCategories]_vars

\* "entry" got a rule and lost it, "exit" has one rule that is long: the
\* configuration lists "entry" with weight 1 and no rule, total_weight is 2
\* and the composite is 1/2
C28_Witness ==
    /\ pc = "signals_done"
    /\ ManagerKeys(manager) = <<"entry", "exit">>
    /\ categories[1].key = "entry" /\ categories[1].rules = <<>>
    /\ categories[1].weight = Num(1) /\ categories[2].weight = Num(1)
    /\ Len(categories[2].rules) = 1
    /\ total_weight = Num(2)
    /\ final_signal[1] = Rat(1, 2)

(***************************************************************************)
(* C29 (under SpecPerformance)                                             *)
(***************************************************************************)
\* C29: on a non-empty trade list with no winning and no losing trade
\* (every pnl is 0, as for a single entry that is never closed)
\* analyze_trades returns profit_factor = +infinity with win_rate 0,
\* avg_win 0 and avg_loss 0; profit_factor is +infinity whenever there is
\* no losing trade or the losing pnl sums to 0.
C29_ProfitFactorInfiniteWithoutLoss ==
    (pc = "analyzed" /\ Len(trades) > 0) =>
        /\ (Winners = {} /\ Losers = {}) =>
              /\ trade_stats.profit_factor = Inf(1)
              /\ trade_stats.win_rate = Num(0)
              /\ trade_stats.avg_win = Num(0)
              /\ trade_stats.avg_loss = Num(0)
        /\ (Losers = {} \/ PnlOver(Losers) = Num(0)) =>
              trade_stats.profit_factor = Inf(1)

\* a single entry trade, pnl 0, never closed
C29_Witness ==
    /\ pc = "analyzed"
    /\ Len(trades) = 1
    /\ trades[1].pnl = Num(0)
    /\ trade_stats.total_trades = 1
    /\ trade_stats.profit_factor = Inf(1)
    /\ trade_stats.win_rate = Num(0)

(***************************************************************************)
(* C30 (under SpecKelly)                                                   *)
(***************************************************************************)
KellyEdgeNegative ==
    FLt(FMul(sizing.profit_ratio, sizing.win_rate),
        FSub(Num(1), sizing.win_rate))

\* C30: Kelly sizing has no floor at 0. When profit_ratio * win_rate <
\* 1 - win_rate the Kelly fraction is negative, min(0.5 * kelly, max_size)
\* is negative, every nonzero position has the sign opposite to its signal,
\* and its magnitude is |signal| * |0.5 * kelly| whatever max_size is.
C30_KellyNoFloor ==
    (KellySized /\ KellyEdgeNegative) =>
        /\ FLt(RefKelly, Num(0))
        /\ FLt(RefKellyCap, Num(0))
        /\ RefKellyCap = RefHalfKelly
        /\ \A t \in 1..Len(positions) :
              /\ signals[t] # Num(0) =>
                    /\ positions[t] # Num(0)
                    /\ Sgn(positions[t]) = -Sgn(signals[t])
              /\ FAbs(positions[t]) = FMul(FAbs(signals[t]), FAbs(RefHalfKelly))

\* win rate 0.2 and profit ratio 0.5: kelly = -1.4, half-Kelly -0.7; with
\* max_size 0.1 a long signal of 1 gives a short position of 0.7 and a short
\* signal of -1/3 a long position of 7/30, both above max_size
C30_Witness ==
    /\ KellySized
    /\ sizing.win_rate = Rat(1, 5)
    /\ sizing.profit_ratio = Rat(1, 2)
    /\ sizing.max_size = Rat(1, 10)
    /\ Len(positions) = 2
    /\ signals[1] = Num(1) /\ positions[1] = Rat(-7, 10)
    /\ signals[2] = Rat(-1, 3) /\ positions[2] = Rat(7, 30)
    /\ FGt(FAbs(positions[2]), sizing.max_size)

====
